---------------------------- MODULE Spec2Model ----------------------------
(***************************************************************************)
(* A model of the village simulation's economy and agent core:             *)
(*   - StorageFacility / StorageManager   (src/src/environment/storage.py) *)
(*   - Resource nodes                     (src/src/environment/resources.py)*)
(*   - Agent needs, health and actions    (src/src/agents/agent.py)        *)
(*   - Job skills and the JobManager      (src/src/jobs/*.py)              *)
(* Each subsystem has its own specification (SpecStorage, SpecNode, ...);  *)
(* the variables of the other subsystems stay at their initial values.     *)
(*                                                                         *)
(* Quantities that are Python floats holding whole amounts (stored         *)
(* resources, capacities, conditions) are integers.  Skill levels, whose   *)
(* arithmetic is multiplicative, are binary floating-point numbers with a  *)
(* MantBits-bit significand (see the section on skills).                   *)
(***************************************************************************)
EXTENDS Integers, Sequences, FiniteSets, TLC

VARIABLES
    \* ---- storage.py
    fac,                \* facility id -> [kind, capacity, resources, condition]
    storage_facilities, \* StorageManager.storage_facilities: sequence of facility ids
    resource_map,       \* StorageManager.resource_map: type -> [cached, list]
    call,               \* the last call made and what it returned
    nops,               \* number of calls made so far (bounds the exploration)
    \* ---- resources.py
    node,               \* one Resource node: [quantity, max_quantity, regrowth_rate,
                        \*                     depleted, removed]
    ncall,              \* the last call made on the node and what it returned
    nnops,              \* number of calls made on the node so far
    \* ---- agent.py, guard.py, healer.py
    agent,              \* one Agent: needs, health, place, action, job, ...
    threat_status,      \* status of the one Threat near the village
    acall,              \* what the last Agent.step decided
    asteps,             \* number of operations on the agent so far
    \* ---- job_manager.py
    day,                \* time_system.get_total_day()
    job_change_history, \* JobManager.job_change_history
    job_of,             \* agent id -> name of its job ("unemployed" for None)
    job_obj,            \* agent id -> the Job object that is agent.job (0 for None)
    job_objects,        \* number of Job objects constructed so far
    jcall,              \* agent id -> the last should_change_job call and its result
    jm_crashed,         \* an exception left the daily evaluation
    current_distribution, \* JobManager.current_distribution (0 for a missing key)
    \* ---- job.py and the Job subclasses
    worker,             \* one Agent as the jobs see it: skills, job, current action
    snapshot,           \* the skills before the last assignment, whether
                        \* improve_skills ran since, the skills at construction
                        \* and whether every call so far was an assignment
    scall,              \* the last Job call made on the worker
    sops,               \* number of Job calls so far
    \* ---- world.py and the village ledger of resources.py
    village_resources,  \* ResourceManager.village_resources: type -> amount
    village_needs,      \* JobManager.village_needs: the mining and crafting needs
    wcall,              \* the last World call and what it returned
    wops,               \* number of World calls so far
    \* ---- builder.py, miner.py, healer.py, merchant.py, threats.py
    jobholder,          \* one agent and the data of the job it holds
    site,               \* what stands at the agent's target: a building, a
                        \* mineral node, a patient
    vcall,              \* the last job handler call and the record it returned
    vops,               \* number of handler calls so far
    \* ---- time_system.py and World.step
    current_tick,       \* TimeSystem.current_tick
    ticks_per_hour,     \* TimeSystem.ticks_per_hour (from the configuration)
    tcall,              \* what the last World.step called
    evaluations,        \* agent id -> should_change_job calls made for it during
                        \* the simulated day of current_tick
    step_raised,        \* an exception left World.step
    \* ---- main.py: the run loop over one food node and the agents
    food_node,          \* the one Resource of a food type on the map
    villagers,          \* agent id (the index in world.agents) -> Agent
    lcall,              \* what the last turn of the run loop did
    lticks,             \* number of turns of the run loop so far
    \* ---- agent.py and miner.py: a miner stepped tick after tick
    mine_agent,         \* the Agent holding a MinerJob, with the job's data
    deposit,            \* what stands on the cell of the assigned deposit
    mining_skill,       \* agent.skills["mining"], in percent
    mcall,              \* what the last Agent.step of the miner did
    mticks,             \* number of steps of the miner so far
    \* ---- agent.py and world.py: an agent going home on the grid
    homing,             \* the Agent: position, home_position, action, REST need
    hcall,              \* the distance to home when go_home was set
    hsteps,             \* number of _progress_go_home calls so far
    \* ---- one storage facility as a building of the world
    building,           \* the StorageFacility, an entry of world.buildings
    ucall,              \* the last call that worked on it, and the facility
                        \* before that call
    uops                \* number of such calls so far

storageVars == <<fac, storage_facilities, resource_map, call, nops>>
nodeVars == <<node, ncall, nnops>>
agentVars == <<agent, threat_status, acall, asteps>>
jobManagerVars == <<day, job_change_history, job_of, job_obj, job_objects, jcall,
                    jm_crashed, current_distribution>>
jobVars == <<worker, snapshot, scall, sops>>
worldVars == <<village_resources, village_needs, wcall, wops>>
villageVars == <<jobholder, site, vcall, vops>>
clockVars == <<current_tick, ticks_per_hour, tcall, evaluations, step_raised>>
loopVars == <<food_node, villagers, lcall, lticks>>
mineVars == <<mine_agent, deposit, mining_skill, mcall, mticks>>
homingVars == <<homing, hcall, hsteps>>
upkeepVars == <<building, ucall, uops>>
vars == <<storageVars, nodeVars, agentVars, jobManagerVars, jobVars, worldVars,
          villageVars, clockVars, loopVars, mineVars, homingVars, upkeepVars>>

\* What each subsystem's operations leave alone
notStorage == <<upkeepVars, homingVars, mineVars, loopVars, clockVars, nodeVars, agentVars, jobManagerVars, jobVars,
    worldVars, villageVars>>
notNode == <<upkeepVars, homingVars, mineVars, loopVars, clockVars, storageVars, agentVars, jobManagerVars, jobVars,
    worldVars, villageVars>>
notAgent == <<upkeepVars, homingVars, mineVars, loopVars, clockVars, storageVars, nodeVars, jobManagerVars, jobVars,
    worldVars, villageVars>>
notJobManager == <<upkeepVars, homingVars, mineVars, loopVars, clockVars, storageVars, nodeVars, agentVars, jobVars,
    worldVars, villageVars>>
notJobs == <<upkeepVars, homingVars, mineVars, loopVars, clockVars, storageVars, nodeVars, agentVars, jobManagerVars,
    worldVars, villageVars>>
\* The World works on the storage manager and on the ledger
notWorld == <<upkeepVars, homingVars, mineVars, loopVars, clockVars, nodeVars, agentVars, jobManagerVars, jobVars,
    villageVars>>
\* The job handlers work on the ledger, the job holder and its target
notVillage == <<upkeepVars, homingVars, mineVars, loopVars, clockVars, storageVars, nodeVars, agentVars, jobManagerVars,
                jobVars, village_needs, wcall, wops>>
notClock == <<upkeepVars, homingVars, mineVars, loopVars, storageVars, nodeVars, agentVars, jobManagerVars, jobVars,
    worldVars, villageVars>>
notLoop == <<upkeepVars, homingVars, mineVars, storageVars, nodeVars, agentVars, jobManagerVars, jobVars,
    worldVars, villageVars, clockVars>>
notMine == <<upkeepVars, homingVars, storageVars, nodeVars, agentVars, jobManagerVars, jobVars,
    worldVars, villageVars, clockVars, loopVars>>
notHoming == <<upkeepVars, storageVars, nodeVars, agentVars, jobManagerVars, jobVars,
    worldVars, villageVars, clockVars, loopVars, mineVars>>
notUpkeep == <<storageVars, nodeVars, agentVars, jobManagerVars, jobVars,
    worldVars, villageVars, clockVars, loopVars, mineVars, homingVars>>

Min(a, b) == IF a <= b THEN a ELSE b
Max(a, b) == IF a >= b THEN a ELSE b

RECURSIVE SumSeq(_)
SumSeq(s) == IF s = <<>> THEN 0 ELSE Head(s) + SumSeq(Tail(s))

(***************************************************************************)
(* Resource types (resources.py, ResourceType).  The model exercises one   *)
(* type of each policy class: WOOD is processed, FOOD_WHEAT is raw and     *)
(* food, WEAPONS is crafted.                                               *)
(***************************************************************************)
RawResources == {"TREE", "STONE", "IRON_ORE", "FOOD_BERRY", "FOOD_FISH",
                 "FOOD_WHEAT", "WATER", "CLAY", "HERB"}
FoodResources == {"FOOD_WHEAT", "FOOD_BERRY", "FOOD_FISH"}
ArmoryResources == {"WEAPONS", "BASIC_TOOLS", "ADVANCED_TOOLS"}
RTypes == {"WOOD", "FOOD_WHEAT", "WEAPONS"}

is_raw_resource(t) == t \in RawResources

Kinds == {"Warehouse", "Granary", "Stockpile", "Armory"}

WarehouseCapacity == 2000
GranaryCapacity == 1500
StockpileCapacity == 800
ArmoryCapacity == 500

DefaultCapacity(k) ==
    CASE k = "Warehouse" -> WarehouseCapacity
      [] k = "Granary"   -> GranaryCapacity
      [] k = "Stockpile" -> StockpileCapacity
      [] k = "Armory"    -> ArmoryCapacity

\* Bounds of the exploration
MaxFacilities == 2
MaxOps == 4
Amounts == {0, 10, 1000}
DamageAmounts == {80}
RepairAmounts == {50}

EmptyResources == [t \in RTypes |-> 0]

\* StorageFacility.__init__
NewFacility(k) ==
    [kind |-> k, capacity |-> DefaultCapacity(k),
     resources |-> EmptyResources, condition |-> 100]

RECURSIVE SumOver(_, _)
SumOver(r, S) ==
    IF S = {} THEN 0
    ELSE LET t == CHOOSE x \in S : TRUE IN r[t] + SumOver(r, S \ {t})

\* sum(self.resources.values())
StoredTotal(f) == SumOver(f.resources, DOMAIN f.resources)

\* StorageFacility.get_available_capacity
get_available_capacity(f) == Max(0, f.capacity - StoredTotal(f))

\* The subclass guard in front of StorageFacility.add_resource
AcceptPolicy(k, t) ==
    CASE k = "Warehouse" -> TRUE
      [] k = "Granary"   -> t \in FoodResources
      [] k = "Stockpile" -> is_raw_resource(t)
      [] k = "Armory"    -> t \in ArmoryResources

\* A faulty add_resource that forgets the capacity clamp (mutant for C1)
BaseAddResource_NoClamp(f, t, amount) ==
    [f |-> [f EXCEPT !.resources[t] = @ + amount], ret |-> amount]

\* StorageFacility.add_resource: [f |-> the facility after, ret |-> amount added]
BaseAddResource(f, t, amount) ==
    LET available_space == Max(0, f.capacity - StoredTotal(f))
        can_add == Min(amount, available_space)
    IN  [f |-> [f EXCEPT !.resources[t] = @ + can_add], ret |-> can_add]

\* Granary / Stockpile / Armory .add_resource (Warehouse inherits the base)
FacilityAddResource(f, t, amount) ==
    IF AcceptPolicy(f.kind, t)
    THEN BaseAddResource(f, t, amount)
    ELSE [f |-> f, ret |-> 0]

\* StorageFacility.remove_resource
FacilityRemoveResource(f, t, amount) ==
    LET available == f.resources[t]
        can_remove == Min(amount, available)
    IN  IF can_remove > 0
        THEN [f |-> [f EXCEPT !.resources[t] = available - can_remove],
              ret |-> can_remove]
        ELSE [f |-> f, ret |-> can_remove]

\* StorageFacility._lose_resources_from_damage: every stored type loses
\* amount * percentage * u, u drawn from [0.5, 1.0]; percentage is
\* damage_taken / 100.  lossOf gives the loss drawn for each type.
LossRange(amount, damage_taken) ==
    {(amount * damage_taken) \div 200, (amount * damage_taken) \div 100}

LoseResources(f, lossOf) ==
    [f EXCEPT !.resources = [t \in RTypes |-> f.resources[t] - lossOf[t]]]

\* StorageFacility.damage; lose is random.random() < 0.3
FacilityDamage(f, amount, lose, lossOf) ==
    LET damage_taken == Min(amount, f.condition)
        g == [f EXCEPT !.condition = @ - damage_taken]
    IN  [f |-> IF g.condition < 30 /\ lose THEN LoseResources(g, lossOf) ELSE g,
         ret |-> damage_taken]

\* A faulty repair that adds the whole amount (mutant for C34)
FacilityRepair_NoClamp(f, amount) ==
    IF f.condition >= 100
    THEN [f |-> f, ret |-> 0]
    ELSE [f |-> [f EXCEPT !.condition = @ + amount], ret |-> amount]

\* StorageFacility.repair
FacilityRepair(f, amount) ==
    IF f.condition >= 100
    THEN [f |-> f, ret |-> 0]
    ELSE LET repair_amount == Min(amount, 100 - f.condition)
         IN  [f |-> [f EXCEPT !.condition = @ + repair_amount],
              ret |-> repair_amount]

(***************************************************************************)
(* StorageManager                                                          *)
(***************************************************************************)

\* StorageManager._update_resource_map: the isinstance ladder
MapAdmits(k, t) ==
    \/ k = "Warehouse"
    \/ k = "Granary" /\ t \in FoodResources
    \/ k = "Stockpile" /\ is_raw_resource(t)
    \/ k = "Armory" /\ t \in ArmoryResources

RECURSIVE EligibleFacilities(_, _, _)
EligibleFacilities(ids, fs, t) ==
    IF ids = <<>> THEN <<>>
    ELSE (IF MapAdmits(fs[Head(ids)].kind, t) THEN <<Head(ids)>> ELSE <<>>)
         \o EligibleFacilities(Tail(ids), fs, t)

\* StorageManager.get_facilities_for_resource: the map after the lookup
\* (the entry is computed only when the type has none yet)
LookedUp(rmap, ids, fs, t) ==
    IF rmap[t].cached THEN rmap
    ELSE [rmap EXCEPT ![t] = [cached |-> TRUE,
                              list |-> EligibleFacilities(ids, fs, t)]]

\* list.sort(key=..., reverse=True): stable, descending
RECURSIVE InsertDesc(_, _, _)
InsertDesc(sorted, x, key) ==
    IF sorted = <<>> THEN <<x>>
    ELSE IF key[Head(sorted)] >= key[x]
         THEN <<Head(sorted)>> \o InsertDesc(Tail(sorted), x, key)
         ELSE <<x>> \o sorted

RECURSIVE SortDesc(_, _)
SortDesc(s, key) ==
    IF s = <<>> THEN <<>>
    ELSE InsertDesc(SortDesc(SubSeq(s, 1, Len(s) - 1), key), s[Len(s)], key)

\* The loop of StorageManager.add_resource over the sorted facilities
RECURSIVE FillLoop(_, _, _, _, _)
FillLoop(order, fs, t, remaining, total_added) ==
    IF order = <<>> \/ remaining <= 0
    THEN [fs |-> fs, ret |-> total_added]
    ELSE LET r == FacilityAddResource(fs[Head(order)], t, remaining)
         IN  FillLoop(Tail(order), [fs EXCEPT ![Head(order)] = r.f], t,
                      remaining - r.ret, total_added + r.ret)

\* StorageManager.add_resource
ManagerAddResource(rmap, ids, fs, t, amount) ==
    LET m1 == LookedUp(rmap, ids, fs, t)
        facilities == m1[t].list
    IN  IF facilities = <<>>
        THEN [rmap |-> m1, fs |-> fs, ret |-> 0]
        ELSE LET key == [i \in DOMAIN fs |-> get_available_capacity(fs[i])]
                 sorted == SortDesc(facilities, key)
                 r == FillLoop(sorted, fs, t, amount, 0)
             IN  [rmap |-> [m1 EXCEPT ![t].list = sorted],
                  fs |-> r.fs, ret |-> r.ret]

\* The loop of StorageManager.remove_resource
RECURSIVE DrainLoop(_, _, _, _, _)
DrainLoop(order, fs, t, remaining, total_removed) ==
    IF order = <<>> \/ remaining <= 0
    THEN [fs |-> fs, ret |-> total_removed]
    ELSE LET r == FacilityRemoveResource(fs[Head(order)], t, remaining)
         IN  DrainLoop(Tail(order), [fs EXCEPT ![Head(order)] = r.f], t,
                       remaining - r.ret, total_removed + r.ret)

\* StorageManager.remove_resource
ManagerRemoveResource(rmap, ids, fs, t, amount) ==
    LET m1 == LookedUp(rmap, ids, fs, t)
        key == [i \in DOMAIN fs |-> fs[i].resources[t]]
        sorted == SortDesc(m1[t].list, key)
        r == DrainLoop(sorted, fs, t, amount, 0)
    IN  [rmap |-> [m1 EXCEPT ![t].list = sorted], fs |-> r.fs, ret |-> r.ret]

\* StorageManager.get_total_resource_amount
get_total_resource_amount(ids, fs, t) ==
    SumSeq([i \in 1..Len(ids) |-> fs[ids[i]].resources[t]])

NoCall == [op |-> "none", id |-> 0, rtype |-> "WOOD", amount |-> 0, ret |-> 0]

\* StorageManager.__init__
InitStorage ==
    /\ fac = <<>>
    /\ storage_facilities = <<>>
    /\ resource_map = [t \in RTypes |-> [cached |-> FALSE, list |-> <<>>]]
    /\ call = NoCall
    /\ nops = 0

\* StorageManager.add_facility (World.add_building accepts the position)
AddFacility(k) ==
    /\ nops < MaxOps
    /\ Len(fac) < MaxFacilities
    /\ fac' = Append(fac, NewFacility(k))
    /\ storage_facilities' = Append(storage_facilities, Len(fac) + 1)
    /\ call' = [NoCall EXCEPT !.op = "add_facility", !.id = Len(fac) + 1]
    /\ nops' = nops + 1
    /\ UNCHANGED notStorage
    /\ UNCHANGED resource_map

\* list.remove(x) for an x that occurs at most once
Without(list, x) == SelectSeq(list, LAMBDA y : y # x)

\* StorageManager.remove_facility(id) for a facility the manager holds: it
\* leaves storage_facilities and every list of resource_map
RemoveFacility(i) ==
    /\ nops < MaxOps
    /\ \E k \in DOMAIN storage_facilities : storage_facilities[k] = i
    /\ storage_facilities' = Without(storage_facilities, i)
    /\ resource_map' = [t \in DOMAIN resource_map |->
                           [resource_map[t] EXCEPT !.list = Without(@, i)]]
    /\ call' = [NoCall EXCEPT !.op = "remove_facility", !.id = i]
    /\ nops' = nops + 1
    /\ UNCHANGED fac
    /\ UNCHANGED notStorage

\* facility.add_resource(t, amount), called on the facility itself
DirectAdd(i, t, amount) ==
    /\ nops < MaxOps
    /\ LET r == FacilityAddResource(fac[i], t, amount)
       IN  /\ fac' = [fac EXCEPT ![i] = r.f]
           /\ call' = [op |-> "add", id |-> i, rtype |-> t,
                       amount |-> amount, ret |-> r.ret]
    /\ nops' = nops + 1
    /\ UNCHANGED notStorage
    /\ UNCHANGED <<storage_facilities, resource_map>>

\* facility.remove_resource(t, amount)
DirectRemove(i, t, amount) ==
    /\ nops < MaxOps
    /\ LET r == FacilityRemoveResource(fac[i], t, amount)
       IN  /\ fac' = [fac EXCEPT ![i] = r.f]
           /\ call' = [op |-> "remove", id |-> i, rtype |-> t,
                       amount |-> amount, ret |-> r.ret]
    /\ nops' = nops + 1
    /\ UNCHANGED notStorage
    /\ UNCHANGED <<storage_facilities, resource_map>>

\* The losses random.uniform can draw for each stored type
LossChoices(f, amount) ==
    { [t \in RTypes |-> IF t = "WOOD" THEN lw ELSE IF t = "FOOD_WHEAT" THEN lf ELSE lp] :
        lw \in LossRange(f.resources["WOOD"], Min(amount, f.condition)),
        lf \in LossRange(f.resources["FOOD_WHEAT"], Min(amount, f.condition)),
        lp \in LossRange(f.resources["WEAPONS"], Min(amount, f.condition)) }

\* facility.damage(amount)
Damage(i, amount) ==
    /\ nops < MaxOps
    /\ \E lose \in BOOLEAN :
       \E lossOf \in (IF lose THEN LossChoices(fac[i], amount)
                              ELSE {[t \in RTypes |-> 0]}) :
          LET r == FacilityDamage(fac[i], amount, lose, lossOf)
          IN  /\ fac' = [fac EXCEPT ![i] = r.f]
              /\ call' = [op |-> "damage", id |-> i, rtype |-> "WOOD",
                          amount |-> amount, ret |-> r.ret]
    /\ nops' = nops + 1
    /\ UNCHANGED notStorage
    /\ UNCHANGED <<storage_facilities, resource_map>>

\* facility.repair(amount, day)
Repair(i, amount) ==
    /\ nops < MaxOps
    /\ LET r == FacilityRepair(fac[i], amount)
       IN  /\ fac' = [fac EXCEPT ![i] = r.f]
           /\ call' = [op |-> "repair", id |-> i, rtype |-> "WOOD",
                       amount |-> amount, ret |-> r.ret]
    /\ nops' = nops + 1
    /\ UNCHANGED notStorage
    /\ UNCHANGED <<storage_facilities, resource_map>>

\* storage_manager.add_resource(t, amount)
ManagerAdd(t, amount) ==
    /\ nops < MaxOps
    /\ LET r == ManagerAddResource(resource_map, storage_facilities, fac, t, amount)
       IN  /\ fac' = r.fs
           /\ resource_map' = r.rmap
           /\ call' = [op |-> "mgr_add", id |-> 0, rtype |-> t,
                       amount |-> amount, ret |-> r.ret]
    /\ nops' = nops + 1
    /\ UNCHANGED notStorage
    /\ UNCHANGED storage_facilities

\* storage_manager.remove_resource(t, amount)
ManagerRemove(t, amount) ==
    /\ nops < MaxOps
    /\ LET r == ManagerRemoveResource(resource_map, storage_facilities, fac, t, amount)
       IN  /\ fac' = r.fs
           /\ resource_map' = r.rmap
           /\ call' = [op |-> "mgr_remove", id |-> 0, rtype |-> t,
                       amount |-> amount, ret |-> r.ret]
    /\ nops' = nops + 1
    /\ UNCHANGED notStorage
    /\ UNCHANGED storage_facilities

NextStorage ==
    \/ \E k \in Kinds : AddFacility(k)
    \/ \E i \in DOMAIN fac : RemoveFacility(i)
    \/ \E i \in DOMAIN fac, t \in RTypes, a \in Amounts : DirectAdd(i, t, a)
    \/ \E i \in DOMAIN fac, t \in RTypes, a \in Amounts : DirectRemove(i, t, a)
    \/ \E i \in DOMAIN fac, a \in DamageAmounts : Damage(i, a)
    \/ \E i \in DOMAIN fac, a \in RepairAmounts : Repair(i, a)
    \/ \E t \in RTypes, a \in Amounts : ManagerAdd(t, a)
    \/ \E t \in RTypes, a \in Amounts : ManagerRemove(t, a)

\* The storage subsystem at rest, for the specifications of the others
IdleStorage == InitStorage

(***************************************************************************)
(* Claims about storage (checked under SpecStorage)                        *)
(***************************************************************************)

\* C1: in every reachable state, every facility stores at most its capacity
\* in total and no stored amount is negative.
C1_CapacityInvariant ==
    \A i \in DOMAIN fac :
        /\ StoredTotal(fac[i]) <= fac[i].capacity
        /\ \A t \in RTypes : fac[i].resources[t] >= 0

\* C1 witness: an add_resource was clamped by the remaining capacity and left
\* the facility exactly full.
C1_Witness ==
    /\ call.op = "add"
    /\ call.ret > 0
    /\ call.ret < call.amount
    /\ StoredTotal(fac[call.id]) = fac[call.id].capacity

\* C4 (as stated): an empty Stockpile of capacity 800 returns 800 from
\* add_resource(WOOD, 1000) and is then full, and returns 0 and keeps its
\* contents for a type failing its policy (WEAPONS).
C4_StockpileScenario ==
    [][ ( /\ nops' = nops + 1
          /\ call'.op = "add"
          /\ fac[call'.id].kind = "Stockpile"
          /\ fac[call'.id].capacity = 800
          /\ StoredTotal(fac[call'.id]) = 0 )
        => /\ (call'.rtype = "WOOD" /\ call'.amount = 1000)
                => /\ call'.ret = 800
                   /\ StoredTotal(fac'[call'.id]) = 800
           /\ (call'.rtype = "WEAPONS")
                => /\ call'.ret = 0
                   /\ fac'[call'.id] = fac[call'.id] ]_vars

\* The facilities of the manager whose accept policy admits type t
Accepting(t) ==
    {i \in DOMAIN fac : \E k \in 1..Len(storage_facilities) :
        storage_facilities[k] = i /\ AcceptPolicy(fac[i].kind, t)}

RECURSIVE SumAvailable(_)
SumAvailable(S) ==
    IF S = {} THEN 0
    ELSE LET i == CHOOSE x \in S : TRUE
         IN  get_available_capacity(fac[i]) + SumAvailable(S \ {i})

\* C10 (as stated): StorageManager.add_resource returns min(amount, total
\* available capacity of the facilities accepting the type), fills them in
\* order of descending available capacity, each at most to its capacity, and
\* leaves the facilities that do not accept the type unchanged.
C10_ManagerAddGreedy ==
    [][ (nops' = nops + 1 /\ call'.op = "mgr_add")
        => LET t == call'.rtype
               got == [i \in DOMAIN fac |->
                          fac'[i].resources[t] - fac[i].resources[t]]
           IN  /\ call'.ret = Min(call'.amount, SumAvailable(Accepting(t)))
               /\ \A i \in DOMAIN fac \ Accepting(t) : fac'[i] = fac[i]
               /\ \A i \in Accepting(t) :
                     /\ got[i] >= 0
                     /\ got[i] <= get_available_capacity(fac[i])
                     /\ \A u \in RTypes \ {t} :
                           fac'[i].resources[u] = fac[i].resources[u]
               /\ \A i, j \in Accepting(t) :
                     (/\ get_available_capacity(fac[i]) > get_available_capacity(fac[j])
                      /\ got[j] > 0)
                        => got[i] = get_available_capacity(fac[i]) ]_vars

\* C28 (as stated): the cached list of eligible facilities is current: every
\* add_resource / remove_resource of the manager for a type works on a list
\* that holds every facility of the manager accepting the type, also one
\* added after the type was first looked up, and a facility that
\* remove_facility took out is in no list and is not changed by the call.
C28_EligibleCacheCurrent ==
    [][ (nops' = nops + 1 /\ call'.op \in {"mgr_add", "mgr_remove"})
        => LET t == call'.rtype
               considered == {resource_map'[t].list[k] :
                                 k \in DOMAIN resource_map'[t].list}
               held == {storage_facilities[k] : k \in DOMAIN storage_facilities}
           IN  /\ \A i \in held : MapAdmits(fac[i].kind, t) => i \in considered
               /\ considered \subseteq held
               /\ \A i \in DOMAIN fac : i \notin held => fac'[i] = fac[i] ]_vars

\* C11 (as stated): StorageManager.remove_resource(type, amount) returns
\* min(amount, get_total_resource_amount(type)), takes exactly that much of
\* the type out of the facilities, never more from a facility than it holds,
\* and a facility holding less is touched only when every facility holding
\* more has been emptied of the type.
C11_ManagerRemoveGreedy ==
    [][ (nops' = nops + 1 /\ call'.op = "mgr_remove")
        => LET t == call'.rtype
               held == [i \in DOMAIN fac |-> fac[i].resources[t]]
               taken == [i \in DOMAIN fac |->
                            fac[i].resources[t] - fac'[i].resources[t]]
           IN  /\ call'.ret = Min(call'.amount,
                                  get_total_resource_amount(storage_facilities, fac, t))
               /\ get_total_resource_amount(storage_facilities, fac', t)
                     = get_total_resource_amount(storage_facilities, fac, t) - call'.ret
               /\ \A i \in DOMAIN fac :
                     /\ taken[i] >= 0
                     /\ taken[i] <= held[i]
                     /\ \A u \in RTypes \ {t} :
                           fac'[i].resources[u] = fac[i].resources[u]
               /\ \A i, j \in DOMAIN fac :
                     (held[i] > held[j] /\ taken[j] > 0) => taken[i] = held[i] ]_vars

(***************************************************************************)
(* Resource nodes (resources.py, class Resource).  Quantities are in       *)
(* thousandths of a unit; regrowth_rate in thousandths per hour; delta_time*)
(* in tenths of an hour; season_modifier in tenths.                        *)
(***************************************************************************)
MaxNodeOps == 4
Milli == 1000

\* Node parameters as the generators create them: (max_quantity, regrowth_rate)
\* HERB clusters (max 20, rate 0.4) and the STONE nodes of
\* test_resource_system.py (max = initial amount, rate 0.0)
NodeParams == {<<20 * Milli, 400>>, <<40 * Milli, 0>>}

\* initial_quantity = max_quantity * uniform(0.6, 1.0)
InitialQuantities(maxq) == {(maxq * 6) \div 10, maxq - 10, maxq}

\* ResourceManager.step: season_modifiers, and 1.0 / ticks_per_hour
SeasonModifiers == {15, 12, 8, 3}
DeltaTimes == {1, 10}
ExtractAmounts == {0, 5 * Milli, 10 * Milli, 40 * Milli}

\* Resource.__init__
NewNode(q, maxq, rate) ==
    [quantity |-> q, max_quantity |-> maxq, regrowth_rate |-> rate,
     depleted |-> FALSE, removed |-> FALSE]

\* A faulty extract that never marks the node depleted (mutant for C3)
Extract_NoDepletedFlag(n, amount) ==
    IF n.depleted
    THEN [n |-> n, ret |-> 0]
    ELSE LET extractable == Min(amount, n.quantity)
         IN  [n |-> [n EXCEPT !.quantity = @ - extractable], ret |-> extractable]

\* Resource.extract: [n |-> the node after, ret |-> amount extracted]
Extract(n, amount) ==
    IF n.depleted
    THEN [n |-> n, ret |-> 0]
    ELSE LET extractable == Min(amount, n.quantity)
             q == n.quantity - extractable
         IN  IF q <= 0
             THEN [n |-> [n EXCEPT !.quantity = 0, !.depleted = TRUE],
                   ret |-> extractable]
             ELSE [n |-> [n EXCEPT !.quantity = q], ret |-> extractable]

\* growth = regrowth_rate * delta_time * season_modifier
Growth(rate, dt, season) == (rate * dt * season) \div 100

\* A faulty regrow in which the season modifier replaces the rate (mutant for C9)
Regrow_SeasonReplacesRate(n, dt, season, reseed) ==
    LET n1 == IF n.depleted /\ reseed
              THEN [n EXCEPT !.depleted = FALSE, !.quantity = n.max_quantity \div 10]
              ELSE n
    IN  IF ~n1.depleted /\ n1.quantity < n1.max_quantity
        THEN [n1 EXCEPT !.quantity =
                 Min(n1.quantity + Growth(Milli, dt, season), n1.max_quantity)]
        ELSE n1

\* Resource.regrow; reseed is random.random() < 0.05
Regrow(n, dt, season, reseed) ==
    LET n1 == IF n.depleted /\ reseed
              THEN [n EXCEPT !.depleted = FALSE, !.quantity = n.max_quantity \div 10]
              ELSE n
    IN  IF ~n1.depleted /\ n1.quantity < n1.max_quantity
        THEN [n1 EXCEPT !.quantity =
                 Min(n1.quantity + Growth(n1.regrowth_rate, dt, season),
                     n1.max_quantity)]
        ELSE n1

NoNodeCall == [op |-> "none", amount |-> 0, dt |-> 0, season |-> 0,
               reseed |-> FALSE, ret |-> 0]

IdleNode ==
    /\ node = NewNode(Milli, Milli, 0)
    /\ ncall = NoNodeCall
    /\ nnops = 0

InitNode ==
    /\ \E p \in NodeParams : \E q \in InitialQuantities(p[1]) :
          node = NewNode(q, p[1], p[2])
    /\ ncall = NoNodeCall
    /\ nnops = 0

\* resource.extract(amount)
ExtractCall(amount) ==
    /\ nnops < MaxNodeOps
    /\ ~node.removed
    /\ LET r == Extract(node, amount)
       IN  /\ node' = r.n
           /\ ncall' = [NoNodeCall EXCEPT !.op = "extract", !.amount = amount,
                                          !.ret = r.ret]
    /\ nnops' = nnops + 1
    /\ UNCHANGED notNode

\* resource.regrow(delta_time, season_modifier), from ResourceManager.step
RegrowCall(dt, season) ==
    /\ nnops < MaxNodeOps
    /\ ~node.removed
    /\ \E reseed \in BOOLEAN :
          /\ node' = Regrow(node, dt, season, reseed)
          /\ ncall' = [NoNodeCall EXCEPT !.op = "regrow", !.dt = dt,
                                         !.season = season, !.reseed = reseed]
    /\ nnops' = nnops + 1
    /\ UNCHANGED notNode

\* A faulty harvest that leaves the emptied node with the manager (mutant
\* for C18)
HarvestUnit_KeepsEmptyNode ==
    /\ nnops < MaxNodeOps
    /\ ~node.removed
    /\ node' = [node EXCEPT !.quantity = @ - Milli]
    /\ ncall' = [NoNodeCall EXCEPT !.op = "harvest"]
    /\ nnops' = nnops + 1
    /\ UNCHANGED notNode

\* MinerJob._progress_mine_deposit / HealerJob._progress_gather_herbs:
\* quantity -= 1, and the node leaves the manager when nothing is left
HarvestUnit ==
    /\ nnops < MaxNodeOps
    /\ ~node.removed
    /\ node' = [node EXCEPT !.quantity = @ - Milli,
                            !.removed = (node.quantity - Milli <= 0)]
    /\ ncall' = [NoNodeCall EXCEPT !.op = "harvest"]
    /\ nnops' = nnops + 1
    /\ UNCHANGED notNode

NextNode ==
    \/ \E a \in ExtractAmounts : ExtractCall(a)
    \/ \E dt \in DeltaTimes, s \in SeasonModifiers : RegrowCall(dt, s)
    \/ HarvestUnit

(***************************************************************************)
(* Claims about resource nodes (checked under SpecNode)                    *)
(***************************************************************************)

\* C3: extract(amount), amount >= 0, returns min(amount, quantity), leaves
\* quantity' = max(0, quantity - amount) and depleted' = (quantity' = 0);
\* on an already depleted node it returns 0 and changes nothing.
C3_Extract ==
    [][ (nnops' = nnops + 1 /\ ncall'.op = "extract")
        => /\ ncall'.ret = Min(ncall'.amount, node.quantity)
           /\ node'.quantity = Max(0, node.quantity - ncall'.amount)
           /\ node'.depleted = (node'.quantity = 0)
           /\ node.depleted => (ncall'.ret = 0 /\ node' = node) ]_vars

\* C3 witness: an extract larger than the quantity emptied a node and marked
\* it depleted.
C3_Witness ==
    /\ ncall.op = "extract"
    /\ ncall.ret > 0
    /\ ncall.ret < ncall.amount
    /\ node.depleted
    /\ node.quantity = 0

\* C9 (as stated): regrow on a non-depleted node sets quantity to
\* min(max_quantity, quantity + regrowth_rate * dt * season_modifier) and never
\* lowers it; with regrowth_rate = 0 the quantity is kept; a depleted node
\* changes only when it reseeds, and the reseed leaves it at 10% of
\* max_quantity.
C9_RegrowAsStated ==
    [][ (nnops' = nnops + 1 /\ ncall'.op = "regrow")
        => LET g == (node.regrowth_rate * ncall'.dt * ncall'.season) \div 100
               tenth == node.max_quantity \div 10
           IN  /\ ~node.depleted =>
                     /\ node'.quantity = Min(node.max_quantity, node.quantity + g)
                     /\ node'.quantity >= node.quantity
                     /\ node.regrowth_rate = 0 => node'.quantity = node.quantity
               /\ (node.depleted /\ node' # node) =>
                     /\ ncall'.reseed
                     /\ node'.quantity = tenth ]_vars

\* C9 (amended): as above, except that the call in which a depleted node
\* reseeds leaves min(max_quantity, 10% of max_quantity + regrowth_rate * dt *
\* season_modifier): the reseeded node grows in the same call like any
\* non-depleted node.
C9_Regrow ==
    [][ (nnops' = nnops + 1 /\ ncall'.op = "regrow")
        => LET g == (node.regrowth_rate * ncall'.dt * ncall'.season) \div 100
               tenth == node.max_quantity \div 10
           IN  /\ ~node.depleted =>
                     /\ node'.quantity = Min(node.max_quantity, node.quantity + g)
                     /\ node'.quantity >= node.quantity
                     /\ node.regrowth_rate = 0 => node'.quantity = node.quantity
                     /\ ~node'.depleted
               /\ (node.depleted /\ ~ncall'.reseed) => node' = node
               /\ (node.depleted /\ ncall'.reseed) =>
                     /\ ~node'.depleted
                     /\ node'.quantity = Min(node.max_quantity, tenth + g)
               /\ node'.max_quantity = node.max_quantity
               /\ node'.regrowth_rate = node.regrowth_rate ]_vars

\* C9 witness: a depleted node of positive regrowth rate has just reseeded
\* in spring and stands above 10% of its maximum.
C9_Witness ==
    /\ ncall.op = "regrow"
    /\ ncall.reseed
    /\ ncall.season = 15
    /\ ncall.dt = 10
    /\ ~node.depleted
    /\ node.regrowth_rate > 0
    /\ node.quantity = node.max_quantity \div 10
                         + (node.regrowth_rate * 10 * 15) \div 100

\* C18: every node the ResourceManager holds has 0 <= quantity <= max_quantity
\* and is depleted exactly when its quantity is 0, whatever extractions,
\* regrowths, reseedings and minings happened.
C18_NodeInvariant ==
    ~node.removed =>
        /\ node.quantity >= 0
        /\ node.quantity <= node.max_quantity
        /\ node.depleted <=> (node.quantity = 0)

\* C18 witness: a node brought down by extraction was mined to its last unit
\* and is still held, not depleted.
C18_Witness ==
    /\ ncall.op = "harvest"
    /\ ~node.removed
    /\ ~node.depleted
    /\ node.quantity = Milli
    /\ node.quantity < node.max_quantity

(***************************************************************************)
(* Agents (agents/agent.py), with GuardJob (jobs/guard.py) as the job that *)
(* touches health, and the healer's treatment of the agent as its patient. *)
(* Needs and health are in hundredths of a point.  One Agent.step is one   *)
(* tick: time_delta = 1.0 and ticks_per_hour = 10, so hours = 0.1.         *)
(***************************************************************************)
MaxSteps == 3

NeedOrder == <<"FOOD", "WATER", "REST", "SHELTER", "SOCIAL">>
NeedTypes == {NeedOrder[i] : i \in DOMAIN NeedOrder}

Full == 10000               \* 100.0
CriticalLevel == 2000       \* 20.0
SurvivalThreshold == 3000   \* 30.0
RecoverLevel == 5000        \* 50.0

\* need_decay_rates[k] * hours
DecayPerStep(k) ==
    CASE k = "FOOD" -> 10
      [] k = "WATER" -> 20
      [] k = "REST" -> 15
      [] k = "SHELTER" -> 5
      [] k = "SOCIAL" -> 3

Places == {"home", "threat", "center", "elsewhere"}
ThreatStatuses == {"ABSENT", "ATTACKING", "DEFEATED"}

\* What a resource.extract(10.0) at the agent's cell can return (0: nothing there)
FoundAmounts == {0, 400, 1000}
\* damage_received = base_strength * strength * 0.1 * time_delta / armor_bonus,
\* with base_strength in 10..100, strength in 0.5..2.0, armor_bonus = 0.5
DamageReceived == {100, 4000}
\* total_healing = (10 + 20 * healing_skill) * (1 or 1.5)
Healings == {1000, 4500}

\* The random outcomes of one step
NoCombat == [hit |-> FALSE, dmg |-> 0, retreat |-> FALSE, defeated |-> FALSE]
CombatOutcomes ==
    {[hit |-> FALSE, dmg |-> 0, retreat |-> FALSE, defeated |-> d] : d \in BOOLEAN}
    \cup {[hit |-> TRUE, dmg |-> g, retreat |-> r, defeated |-> d] :
             g \in DamageReceived, r \in BOOLEAN, d \in BOOLEAN}
\* (no step reads more than one of found, meet, detect and combat: each belongs
\* to a different current action)
Randoms ==
    {[to |-> p, found |-> f, meet |-> FALSE, detect |-> FALSE, combat |-> NoCombat] :
        p \in Places, f \in FoundAmounts}
    \cup {[to |-> p, found |-> 0, meet |-> TRUE, detect |-> FALSE, combat |-> NoCombat] :
             p \in Places}
    \cup {[to |-> p, found |-> 0, meet |-> FALSE, detect |-> TRUE, combat |-> NoCombat] :
             p \in Places}
    \cup {[to |-> "threat", found |-> 0, meet |-> FALSE, detect |-> TRUE, combat |-> c] :
             c \in CombatOutcomes}

\* Agent.__init__, at some later moment of its life: the needs have decayed and
\* been refilled, health has been lost to critical needs and partly regained
NeedProfiles ==
    { [k \in NeedTypes |-> Full],
      [k \in NeedTypes |-> IF k = "FOOD" THEN 1500 ELSE Full],
      [k \in NeedTypes |-> 4000],
      [k \in NeedTypes |-> IF k \in {"REST", "SHELTER"} THEN 2500 ELSE Full],
      [k \in NeedTypes |-> IF k = "WATER" THEN 3010 ELSE 5010],
      [k \in NeedTypes |-> IF k = "SOCIAL" THEN 2 ELSE 6000],
      [k \in NeedTypes |-> IF k = "REST" THEN 9450 ELSE 9990],
      [k \in NeedTypes |-> IF k = "SHELTER" THEN 3004 ELSE 8] }
HealthLevels == {0, 500, 9990, Full}

NewAgent(needs, health, home_set, job, skilled) ==
    [needs |-> needs, health |-> health,
     pos |-> "elsewhere", home_set |-> home_set,
     current_action |-> "none", action_progress |-> 0,
     inv_food |-> 0, inv_water |-> 0,
     job |-> job, skilled |-> skilled, current_threat |-> FALSE,
     crashed |-> FALSE]

\* An uncaught exception (KeyError) leaves Agent.step and ends the run
Crash(a) == [a EXCEPT !.crashed = TRUE]

\* Agent._set_action
SetAction(a, action) ==
    [a EXCEPT !.current_action = action, !.action_progress = 0]

\* Agent._is_in_shelter
IsInShelter(a) == a.home_set /\ a.pos = "home"

\* Agent._update_health
UpdateHealth(a) ==
    LET critical_needs == Cardinality({k \in NeedTypes : a.needs[k] < CriticalLevel})
    IN  IF critical_needs > 0
        THEN [a EXCEPT !.health = Max(0, @ - 50 * critical_needs)]
        ELSE IF a.health < Full /\ \A k \in NeedTypes : a.needs[k] > RecoverLevel
             THEN [a EXCEPT !.health = Min(Full, @ + 20)]
             ELSE a

\* An update of the needs in which standing at home restores the SHELTER need
\* (mutant for C38)
UpdateNeeds_HomeRestores(a) ==
    UpdateHealth(
      [a EXCEPT !.needs =
         [k \in NeedTypes |->
            IF k = "REST" /\ a.current_action = "sleeping"
            THEN Min(Full, a.needs[k] + 100)
            ELSE IF k = "SHELTER" /\ IsInShelter(a)
                 THEN Min(Full, a.needs[k] + DecayPerStep(k))
                 ELSE Max(0, a.needs[k] - DecayPerStep(k))]])

\* Agent._update_needs (which ends with _update_health)
UpdateNeeds(a) ==
    UpdateHealth(
      [a EXCEPT !.needs =
         [k \in NeedTypes |->
            IF k = "REST" /\ a.current_action = "sleeping"
            THEN Min(Full, a.needs[k] + 100)
            ELSE IF k = "SHELTER" /\ IsInShelter(a)
                 THEN a.needs[k]
                 ELSE Max(0, a.needs[k] - DecayPerStep(k))]])

\* Agent._consume_food: min(10, inventory) units, 5 points of need per unit
ConsumeFood(a) ==
    IF a.inv_food > 0
    THEN LET amount_to_consume == Min(1000, a.inv_food)
         IN  [a EXCEPT !.inv_food = @ - amount_to_consume,
                       !.needs["FOOD"] = Min(Full, @ + amount_to_consume * 5)]
    ELSE a

\* Agent._consume_water: 8 points of need per unit
ConsumeWater(a) ==
    IF a.inv_water > 0
    THEN LET amount_to_consume == Min(1000, a.inv_water)
         IN  [a EXCEPT !.inv_water = @ - amount_to_consume,
                       !.needs["WATER"] = Min(Full, @ + amount_to_consume * 8)]
    ELSE a

\* Agent._socialize_with: social_gain = 20.0
SocializeWith(a) == [a EXCEPT !.needs["SOCIAL"] = Min(Full, @ + 2000)]

\* min(self.needs.items(), key=value): the first need, in dict order, of the
\* lowest value
LowestNeed(needs) ==
    LET i == CHOOSE i \in DOMAIN NeedOrder :
                /\ \A j \in DOMAIN NeedOrder : needs[NeedOrder[i]] <= needs[NeedOrder[j]]
                /\ \A j \in 1..(i - 1) : needs[NeedOrder[j]] > needs[NeedOrder[i]]
    IN  NeedOrder[i]

\* The survival branch of Agent._decide_next_action
SurvivalAction(need_type, home_set) ==
    CASE need_type = "FOOD" -> "find_food"
      [] need_type = "WATER" -> "find_water"
      [] need_type \in {"REST", "SHELTER"} ->
            IF home_set THEN "go_home" ELSE "find_shelter"
      [] need_type = "SOCIAL" -> "socialize"

\* GuardJob.decide_action.  agent.skills["perception"] exists only for agents
\* given the guard skills; agent.needs has no "energy" key, so the patrol
\* branch raises KeyError.
GuardDecideAction(a, status, detect) ==
    IF a.current_threat /\ status = "ATTACKING"
    THEN IF a.pos # "threat"
         THEN SetAction(a, "go_to_threat")
         ELSE SetAction(a, "engage_threat")
    ELSE IF ~a.current_threat /\ ~a.skilled
    THEN Crash(a)
    ELSE IF ~a.current_threat /\ status = "ATTACKING" /\ detect
    THEN SetAction([a EXCEPT !.current_threat = TRUE], "go_to_threat")
    ELSE Crash(a)

\* A faulty decision that asks the job first whenever there is one (mutant for C5)
DecideNextAction_JobFirst(a, status, detect) ==
    LET need_type == LowestNeed(a.needs)
    IN  IF a.job = "guard"
        THEN LET g == GuardDecideAction(a, status, detect)
             IN  [a |-> g, chosen |-> g.current_action, consulted |-> TRUE]
        ELSE IF a.needs[need_type] < SurvivalThreshold
        THEN [a |-> SetAction(a, SurvivalAction(need_type, a.home_set)),
              chosen |-> SurvivalAction(need_type, a.home_set),
              consulted |-> FALSE]
        ELSE [a |-> SetAction(a, "wander"), chosen |-> "wander", consulted |-> FALSE]

\* Agent._decide_next_action: the agent after, the action chosen, and whether
\* job.decide_action was called
DecideNextAction(a, status, detect) ==
    LET need_type == LowestNeed(a.needs)
    IN  IF a.needs[need_type] < SurvivalThreshold
        THEN [a |-> SetAction(a, SurvivalAction(need_type, a.home_set)),
              chosen |-> SurvivalAction(need_type, a.home_set),
              consulted |-> FALSE]
        ELSE IF a.job = "guard"
        THEN LET g == GuardDecideAction(a, status, detect)
             IN  [a |-> g, chosen |-> g.current_action, consulted |-> TRUE]
        ELSE [a |-> SetAction(a, "wander"), chosen |-> "wander", consulted |-> FALSE]

\* world.move_agent: where a move of one cell ends, relative to the places
\* that matter
MoveTo(a, status, to) ==
    IF to = "home" /\ ~a.home_set THEN "elsewhere"
    ELSE IF to = "threat" /\ status = "ABSENT" THEN "elsewhere"
    ELSE to

\* Agent._progress_wander
ProgressWander(a, status, rnd) ==
    [a EXCEPT !.pos = MoveTo(a, status, rnd.to), !.action_progress = 50]

\* Agent._progress_go_home
ProgressGoHome(a, status, rnd) ==
    IF ~a.home_set
    THEN [a EXCEPT !.action_progress = 100]
    ELSE IF a.pos = "home"
    THEN IF a.needs["REST"] < RecoverLevel
         THEN SetAction(a, "sleeping")
         ELSE [a EXCEPT !.action_progress = 100]
    ELSE LET new == MoveTo(a, status, rnd.to)
         IN  [a EXCEPT !.pos = new,
                       !.action_progress = IF new = "home" THEN 100 ELSE 50]

\* Agent._progress_find_food
ProgressFindFood(a, status, rnd) ==
    IF a.inv_food > 0
    THEN [ConsumeFood(a) EXCEPT !.action_progress = 100]
    ELSE IF rnd.found > 0
    THEN [ConsumeFood([a EXCEPT !.inv_food = @ + rnd.found])
             EXCEPT !.action_progress = 100]
    ELSE ProgressWander(a, status, rnd)

\* Agent._progress_find_water
ProgressFindWater(a, status, rnd) ==
    IF a.inv_water > 0
    THEN [ConsumeWater(a) EXCEPT !.action_progress = 100]
    ELSE IF rnd.found > 0
    THEN [ConsumeWater([a EXCEPT !.inv_water = @ + rnd.found])
             EXCEPT !.action_progress = 100]
    ELSE ProgressWander(a, status, rnd)

\* A sleep that is never finished, however rested the agent is (mutant for C37)
ProgressSleeping_NeverDone(a) ==
    IF ~IsInShelter(a)
    THEN SetAction(a, "go_home")
    ELSE [a EXCEPT !.action_progress = 50]

\* Agent._progress_sleeping
ProgressSleeping(a) ==
    IF ~IsInShelter(a)
    THEN SetAction(a, "go_home")
    ELSE [a EXCEPT !.action_progress = IF a.needs["REST"] >= 9500 THEN 100 ELSE 50]

\* Agent._progress_find_shelter: a random home when there is none
ProgressFindShelter(a, rnd) ==
    IF ~a.home_set
    THEN SetAction([a EXCEPT !.home_set = TRUE,
                             !.pos = IF rnd.to = "home" THEN "home" ELSE a.pos],
                   "go_home")
    ELSE SetAction(a, "go_home")

\* Agent._progress_socialize
ProgressSocialize(a, status, rnd) ==
    IF rnd.meet
    THEN [SocializeWith(a) EXCEPT !.action_progress = 100]
    ELSE ProgressWander(a, status, rnd)

\* GuardJob._progress_go_to_threat
ProgressGoToThreat(a, status, rnd) ==
    IF status # "ATTACKING"
    THEN [a EXCEPT !.current_threat = FALSE, !.action_progress = 100]
    ELSE IF a.pos = "threat"
    THEN SetAction(a, "engage_threat")
    ELSE LET new == MoveTo(a, status, rnd.to)
         IN  IF new = "threat"
             THEN SetAction([a EXCEPT !.pos = new], "engage_threat")
             ELSE [a EXCEPT !.pos = new, !.action_progress = 50]

\* GuardJob._progress_engage_threat.  agent.health -= damage_received is not
\* clamped; the retreat returns normally; every other round of combat reaches
\* agent.needs["energy"] -= ..., a KeyError.
ProgressEngageThreat(a, status, rnd) ==
    IF status # "ATTACKING"
    THEN [a EXCEPT !.current_threat = FALSE, !.action_progress = 100]
    ELSE IF a.pos # "threat"
    THEN SetAction(a, "go_to_threat")
    ELSE IF a.action_progress < 95
    THEN IF ~a.skilled
         THEN Crash(a)
         ELSE LET hurt == IF rnd.combat.hit
                          THEN [a EXCEPT !.health = @ - rnd.combat.dmg]
                          ELSE a
              IN  IF rnd.combat.hit /\ hurt.health < SurvivalThreshold
                                    /\ rnd.combat.retreat
                  THEN SetAction([hurt EXCEPT !.current_threat = FALSE], "go_to_rest")
                  ELSE Crash(hurt)
    ELSE [a EXCEPT !.current_threat = FALSE, !.action_progress = 100]

\* GuardJob._progress_go_to_rest, towards the village centre
ProgressGoToRest(a, status, rnd) ==
    IF a.pos = "center"
    THEN SetAction(a, "rest")
    ELSE LET new == MoveTo(a, status, rnd.to)
         IN  IF new = "center"
             THEN SetAction([a EXCEPT !.pos = new], "rest")
             ELSE [a EXCEPT !.pos = new, !.action_progress = 50]

\* GuardJob._progress_rest: agent.needs["energy"] is a KeyError
ProgressRest(a) ==
    IF a.action_progress < 100 THEN Crash(a) ELSE a

\* GuardJob.progress_action
GuardProgressAction(a, status, rnd) ==
    CASE a.current_action = "go_to_threat" -> ProgressGoToThreat(a, status, rnd)
      [] a.current_action = "engage_threat" -> ProgressEngageThreat(a, status, rnd)
      [] a.current_action = "go_to_rest" -> ProgressGoToRest(a, status, rnd)
      [] a.current_action = "rest" -> ProgressRest(a)
      [] OTHER -> a

\* Agent._progress_action
ProgressAction(a, status, rnd) ==
    CASE a.current_action = "wander" -> ProgressWander(a, status, rnd)
      [] a.current_action = "go_home" -> ProgressGoHome(a, status, rnd)
      [] a.current_action = "find_food" -> ProgressFindFood(a, status, rnd)
      [] a.current_action = "find_water" -> ProgressFindWater(a, status, rnd)
      [] a.current_action = "sleeping" -> ProgressSleeping(a)
      [] a.current_action = "find_shelter" -> ProgressFindShelter(a, rnd)
      [] a.current_action = "socialize" -> ProgressSocialize(a, status, rnd)
      [] OTHER -> IF a.job = "guard" THEN GuardProgressAction(a, status, rnd) ELSE a

\* Agent._complete_action: find_food and find_water are always set with target
\* None, so nothing is consumed here; then the action is cleared
CompleteAction(a) ==
    [a EXCEPT !.current_action = "none", !.action_progress = 0]

\* A step that leaves a finished action in place
StepUpdate_KeepsCompleted(a) == UpdateNeeds(a)

\* Agent.step before the decision: update the needs, complete a finished action
StepUpdate(a) ==
    LET a1 == UpdateNeeds(a)
    IN  IF a1.current_action # "none" /\ a1.action_progress >= 100
        THEN CompleteAction(a1)
        ELSE a1

\* Agent.step: the decision, made only when there is no current action
StepDecide(a2, status, detect) ==
    IF a2.current_action = "none"
    THEN DecideNextAction(a2, status, detect)
    ELSE [a |-> a2, chosen |-> "none", consulted |-> FALSE]

\* Agent.step after the decision: progress the current action, if any
StepProgress(a3, status, rnd) ==
    IF a3.crashed \/ a3.current_action = "none"
    THEN a3
    ELSE ProgressAction(a3, status, rnd)

\* threat.take_damage during a round of combat may end the threat
StatusAfterStep(a3, status, rnd) ==
    IF /\ ~a3.crashed
       /\ a3.job = "guard"
       /\ a3.current_action = "engage_threat"
       /\ status = "ATTACKING"
       /\ a3.pos = "threat"
       /\ a3.action_progress < 95
       /\ a3.skilled
       /\ rnd.combat.defeated
    THEN "DEFEATED"
    ELSE status

NoAgentCall ==
    [op |-> "none", decided |-> FALSE, chosen |-> "none", consulted |-> FALSE,
     needs |-> [k \in NeedTypes |-> Full], home_set |-> FALSE, job |-> "none"]

IdleAgent ==
    /\ agent = NewAgent([k \in NeedTypes |-> Full], Full, FALSE, "none", FALSE)
    /\ threat_status = "ABSENT"
    /\ acall = NoAgentCall
    /\ asteps = 0

InitAgent ==
    /\ \E needs \in NeedProfiles, health \in HealthLevels, home_set \in BOOLEAN,
          j \in {<<"none", FALSE>>, <<"guard", FALSE>>, <<"guard", TRUE>>} :
          agent = NewAgent(needs, health, home_set, j[1], j[2])
    /\ threat_status \in {"ABSENT", "ATTACKING"}
    /\ acall = NoAgentCall
    /\ asteps = 0

\* agent.step(world, 1.0), from the run loop
AgentStep ==
    /\ asteps < MaxSteps
    /\ ~agent.crashed
    /\ LET a2 == StepUpdate(agent)
       IN  \E rnd \in Randoms :
              LET d == StepDecide(a2, threat_status, rnd.detect)
              IN  /\ agent' = StepProgress(d.a, threat_status, rnd)
                  /\ threat_status' = StatusAfterStep(d.a, threat_status, rnd)
                  /\ acall' = [op |-> "step", decided |-> (a2.current_action = "none"),
                               chosen |-> d.chosen, consulted |-> d.consulted,
                               needs |-> a2.needs, home_set |-> a2.home_set,
                               job |-> a2.job]
    /\ asteps' = asteps + 1
    /\ UNCHANGED notAgent

\* HealerJob._progress_treat_patient, with this agent as the patient
TreatPatient(heal) ==
    /\ asteps < MaxSteps
    /\ ~agent.crashed
    /\ agent.health < Full
    /\ agent' = [agent EXCEPT !.health = Min(Full, @ + heal)]
    /\ acall' = [NoAgentCall EXCEPT !.op = "treated"]
    /\ asteps' = asteps + 1
    /\ UNCHANGED threat_status
    /\ UNCHANGED notAgent

\* ThreatManager: a threat arrives and attacks, is driven off, is removed
ThreatChange ==
    /\ asteps < MaxSteps
    /\ ~agent.crashed
    /\ threat_status' = CASE threat_status = "ABSENT" -> "ATTACKING"
                          [] threat_status = "ATTACKING" -> "DEFEATED"
                          [] threat_status = "DEFEATED" -> "ABSENT"
    /\ agent' = IF threat_status = "DEFEATED" /\ agent.pos = "threat"
                THEN [agent EXCEPT !.pos = "elsewhere"]
                ELSE agent
    /\ asteps' = asteps + 1
    /\ UNCHANGED acall
    /\ UNCHANGED notAgent

NextAgent ==
    \/ AgentStep
    \/ \E heal \in Healings : TreatPatient(heal)
    \/ ThreatChange

(***************************************************************************)
(* Claims about agents (checked under SpecAgent)                           *)
(***************************************************************************)

\* C2 (as stated): after every Agent.step that returns, and after any
\* treatment by a healer, every need is in [0,100] and health is in [0,100].
C2_NeedsHealthBounds ==
    ~agent.crashed =>
        /\ \A k \in NeedTypes : agent.needs[k] >= 0 /\ agent.needs[k] <= Full
        /\ agent.health >= 0
        /\ agent.health <= Full

\* C5: when an idle agent decides and its lowest need is below 30, it chooses
\* the survival action of a lowest need (go_home or find_shelter by whether it
\* has a home), with or without a job, and job.decide_action is not called.
C5_SurvivalOverride ==
    (acall.op = "step" /\ acall.decided
        /\ \E k \in NeedTypes : acall.needs[k] < SurvivalThreshold)
    => /\ \E k \in NeedTypes :
            /\ \A o \in NeedTypes : acall.needs[k] <= acall.needs[o]
            /\ acall.chosen = (CASE k = "FOOD" -> "find_food"
                                 [] k = "WATER" -> "find_water"
                                 [] k = "SOCIAL" -> "socialize"
                                 [] OTHER -> IF acall.home_set THEN "go_home"
                                             ELSE "find_shelter")
       /\ ~acall.consulted

\* C5 witness: a guard without a home whose rest (tied with shelter) is below
\* 30 chose find_shelter.
C5_Witness ==
    /\ acall.op = "step"
    /\ acall.decided
    /\ acall.job = "guard"
    /\ acall.needs["REST"] < SurvivalThreshold
    /\ acall.needs["FOOD"] = Full - 10
    /\ acall.chosen = "find_shelter"
    /\ agent.current_action = "go_home"

\* The actions GuardJob.progress_action dispatches
GuardHandledActions ==
    {"patrol_to", "rest", "go_to_rest", "go_to_threat", "engage_threat"}

\* C15 (as stated): after Agent.step on an employed agent that was idle when
\* it decided, with every need at 30 or more, the step returned and the agent
\* has a current action that its job's progress_action handles.
C15_JobDecidesAction ==
    (/\ acall.op = "step"
     /\ acall.decided
     /\ acall.job = "guard"
     /\ \A k \in NeedTypes : acall.needs[k] >= SurvivalThreshold)
    => /\ ~agent.crashed
       /\ agent.current_action \in GuardHandledActions

WanderNeeds ==
    { [k \in NeedTypes |-> 3100],
      [k \in NeedTypes |-> IF k = "FOOD" THEN 2000 ELSE 3100] }

\* The random outcomes of a step in a land of plenty: every search finds 10
\* units of food or water where the agent stands, and company is always near
WanderRandoms ==
    {[to |-> p, found |-> 1000, meet |-> TRUE, detect |-> FALSE,
      combat |-> NoCombat] : p \in {"elsewhere", "center"}}

InitWander ==
    /\ \E needs \in WanderNeeds, home_set \in BOOLEAN :
          agent = NewAgent(needs, Full, home_set, "none", FALSE)
    /\ threat_status = "ABSENT"
    /\ acall = NoAgentCall
    /\ asteps = 0

StepForever ==
    /\ ~agent.crashed
    /\ LET a2 == StepUpdate(agent)
       IN  \E rnd \in WanderRandoms :
              LET d == StepDecide(a2, threat_status, rnd.detect)
              IN  /\ agent' = StepProgress(d.a, threat_status, rnd)
                  /\ threat_status' = StatusAfterStep(d.a, threat_status, rnd)
                  /\ acall' = [op |-> "step", decided |-> (a2.current_action = "none"),
                               chosen |-> d.chosen, consulted |-> d.consulted,
                               needs |-> a2.needs, home_set |-> a2.home_set,
                               job |-> a2.job]
    /\ UNCHANGED asteps
    /\ UNCHANGED notAgent

NextWander == StepForever

SurvivalActions == {"find_food", "find_water", "go_home", "find_shelter", "socialize"}

\* C30 (as stated): when the lowest need of a wandering agent is below 30, the
\* agent's current action becomes a survival action after finitely many
\* steps; the agent does not wander forever.
C30_WanderInterrupted ==
    (/\ agent.current_action = "wander"
     /\ agent.needs[LowestNeed(agent.needs)] < SurvivalThreshold)
    ~> (agent.current_action \in SurvivalActions)

\* The run loop without an end, for a tired jobless agent with or without a
\* home: the first decision sends it home (or to look for a home), where it
\* falls asleep.
SleepNeeds ==
    { [k \in NeedTypes |-> IF k = "REST" THEN 2900 ELSE 3100],
      [k \in NeedTypes |-> IF k = "REST" THEN 2000 ELSE 6000],
      [k \in NeedTypes |-> IF k = "REST" THEN 0 ELSE 3100] }

\* The random outcomes of a step on the way home and after waking: a move may
\* or may not end on the home cell, searches find 10 units, company is near
SleepRandoms ==
    {[to |-> p, found |-> 1000, meet |-> TRUE, detect |-> FALSE,
      combat |-> NoCombat] : p \in {"home", "elsewhere"}}

InitSleep ==
    /\ \E needs \in SleepNeeds, home_set \in BOOLEAN :
          agent = NewAgent(needs, Full, home_set, "none", FALSE)
    /\ threat_status = "ABSENT"
    /\ acall = NoAgentCall
    /\ asteps = 0

\* The run is followed through every sleep, and for this many steps begun awake
MaxAwakeSteps == 5

\* agent.step(world, 1.0) on every tick
SleepStep ==
    /\ ~agent.crashed
    /\ agent.current_action = "sleeping" \/ asteps < MaxAwakeSteps
    /\ LET a2 == StepUpdate(agent)
       IN  \E rnd \in SleepRandoms :
              LET d == StepDecide(a2, threat_status, rnd.detect)
              IN  /\ agent' = StepProgress(d.a, threat_status, rnd)
                  /\ threat_status' = StatusAfterStep(d.a, threat_status, rnd)
                  /\ acall' = [op |-> "step", decided |-> (a2.current_action = "none"),
                               chosen |-> d.chosen, consulted |-> d.consulted,
                               needs |-> a2.needs, home_set |-> a2.home_set,
                               job |-> a2.job]
    /\ asteps' = IF agent.current_action = "sleeping" THEN asteps ELSE asteps + 1
    /\ UNCHANGED notAgent

NextSleep == SleepStep

\* The REST level at which _progress_sleeping marks the sleep complete
Rested == 9500

\* C37 (as stated): whenever current_action is sleeping at the end of a step
\* the agent stands on its home position; the REST need does not decrease in
\* a step taken while sleeping; and a sleeping agent reaches REST >= 95 and
\* is no longer sleeping after finitely many steps.
C37_SleepingAtHomeTerminates ==
    /\ [](agent.current_action = "sleeping" => IsInShelter(agent))
    /\ [][agent.current_action = "sleeping"
            => agent'.needs["REST"] >= agent.needs["REST"]]_vars
    /\ (agent.current_action = "sleeping")
          ~> (agent.needs["REST"] >= Rested /\ agent.current_action # "sleeping")

\* An agent that began with REST below 30 is at home, rested, and the step just
\* taken cleared the finished sleep and decided what to do next
C37_Witness ==
    /\ acall.op = "step"
    /\ acall.decided
    /\ acall.needs["REST"] >= Rested
    /\ agent.home_set
    /\ agent.current_action # "sleeping"
    /\ agent.needs["FOOD"] < 3100

\* C38 (as stated): no step of the agent, treatment or threat event raises the
\* SHELTER need; an Agent.step begun on the home position leaves it as it was,
\* and an Agent.step begun anywhere else (or without a home) lowers it by the
\* decay of one tick, stopping at 0.
C38_ShelterNeverRises ==
    [][ /\ agent'.needs["SHELTER"] <= agent.needs["SHELTER"]
        /\ (/\ asteps' = asteps + 1
            /\ acall'.op = "step"
            /\ threat_status' = threat_status)   \* an Agent.step, not a threat event
           => agent'.needs["SHELTER"] =
                 IF IsInShelter(agent)
                 THEN agent.needs["SHELTER"]
                 ELSE Max(0, agent.needs["SHELTER"] - DecayPerStep("SHELTER")) ]_vars

\* Three steps of an agent that began with SHELTER at 25.0 away from its home:
\* the first lowered the need on the way home, the two taken at home (the
\* arrival finalized, then asleep) left it at 24.95
C38_Witness ==
    /\ asteps = 3
    /\ acall.op = "step"
    /\ IsInShelter(agent)
    /\ agent.current_action = "sleeping"
    /\ agent.needs["FOOD"] = Full - 3 * DecayPerStep("FOOD")
    /\ agent.needs["SHELTER"] = 2500 - DecayPerStep("SHELTER")

\* config.ticks_per_hour: one step of time_delta 1.0 is a tenth of an hour
TicksPerHour == 10

\* Needs below 20 after the decay of the step
CriticalCount(needs) == Cardinality({k \in NeedTypes : needs[k] < CriticalLevel})

\* C19 (as stated): in a step with k >= 1 needs below 20 the agent loses
\* 0.5 * k health per simulated hour, that is 0.5 * k / ticks_per_hour in one
\* tick, clamped at 0; health rises only when no need is below 20 and all
\* needs exceed 50, and is otherwise unchanged by the step.
C19_HealthLossPerHour ==
    [][ (/\ asteps' = asteps + 1
         /\ acall'.op = "step"
         /\ threat_status' = threat_status     \* an Agent.step, not a threat event
         /\ agent.job = "none")
        => LET k == CriticalCount(acall'.needs)
               all_above == \A n \in NeedTypes : acall'.needs[n] > RecoverLevel
           IN  /\ k >= 1 =>
                     agent'.health = Max(0, agent.health - (50 * k) \div TicksPerHour)
               /\ agent'.health > agent.health => (k = 0 /\ all_above)
               /\ (k = 0 /\ ~all_above) => agent'.health = agent.health ]_vars

(***************************************************************************)
(* The job manager (jobs/job_manager.py) under World._evaluate_job_changes, *)
(* which runs once a day.  Village needs are in whole units, aptitudes in   *)
(* hundredths; adjusted needs are compared scaled by 200.                   *)
(***************************************************************************)
MaxDay == 17
NumAgents == 2
MinDaysBetweenChanges == 15

AgentIds == 1..NumAgents

\* job_need_map, in dict order, restricted to three of the eight jobs
JobOrder == <<"farmer", "builder", "miner">>
JobNames == {JobOrder[i] : i \in DOMAIN JobOrder}
NeedLevels == {0, 1, 2, 4}

\* JobManager.village_needs after update_village_needs, for the three jobs in
\* the order of JobOrder
VillageNeeds ==
    {[j \in JobNames |-> CASE j = "farmer" -> v[1]
                           [] j = "builder" -> v[2]
                           [] j = "miner" -> v[3]] :
        v \in {t \in NeedLevels \X NeedLevels \X NeedLevels :
                 t \in {<<0, 0, 0>>, <<4, 0, 0>>, <<0, 4, 0>>, <<0, 0, 4>>,
                        <<0, 1, 2>>, <<0, 1, 4>>, <<2, 1, 0>>, <<1, 2, 4>>}}}

\* Jobs whose remove_from_agent reads agent.job_data, an attribute the Agent
\* class never sets
ReadsJobData == {"farmer"}

\* Agent.skills of the job's skill: uniform(0.1, 0.3), boosted by the
\* skill_modifiers of the job held (farming 1.5, building 0.6, mining 0.5)
BaseSkill(id, j) == IF id = 1 THEN 20 ELSE IF j = "miner" THEN 30 ELSE 10
SkillBoost(j) ==
    CASE j = "farmer" -> 250
      [] j = "builder" -> 160
      [] j = "miner" -> 150

\* JobManager._get_job_skill_aptitude, in hundredths
JobSkillAptitude(id, held, j) ==
    IF held = j THEN (BaseSkill(id, j) * SkillBoost(j)) \div 100 ELSE BaseSkill(id, j)

\* adjusted_need = need_value * (0.5 + 0.5 * skill_aptitude), times 200
AdjustedNeed(needs, id, held, j) == needs[j] * (100 + JobSkillAptitude(id, held, j))

\* next((change for change in history if change['agent_id'] == id), None):
\* the index of the FIRST entry of the agent, 0 for None
FirstChangeOf(history, id) ==
    IF \E i \in DOMAIN history : history[i].agent_id = id
    THEN CHOOSE i \in DOMAIN history :
            /\ history[i].agent_id = id
            /\ \A k \in 1..(i - 1) : history[k].agent_id # id
    ELSE 0

\* The index of the agent's most recent entry, 0 when it has none
LastChangeOf(history, id) ==
    IF \E i \in DOMAIN history : history[i].agent_id = id
    THEN CHOOSE i \in DOMAIN history :
            /\ history[i].agent_id = id
            /\ \A k \in (i + 1)..Len(history) : history[k].agent_id # id
    ELSE 0

\* The loop over job_need_map of should_change_job (from index i on)
RECURSIVE BestJobLoop(_, _, _, _, _)
BestJobLoop(i, needs, id, held, best) ==
    IF i > Len(JobOrder)
    THEN best
    ELSE LET adjusted_need == AdjustedNeed(needs, id, held, JobOrder[i])
         IN  BestJobLoop(i + 1, needs, id, held,
                         IF adjusted_need > best.need
                         THEN [need |-> adjusted_need, job |-> JobOrder[i]]
                         ELSE best)

\* A should_change_job without the margin: any better job will do
ShouldChangeJob_NoMargin(history, id, held, today, needs) ==
    LET last_change == FirstChangeOf(history, id)
    IN  IF last_change # 0 /\ today - history[last_change].day < MinDaysBetweenChanges
        THEN FALSE
        ELSE LET current_need == IF held \in JobNames THEN needs[held] * 200 ELSE 0
                 best == BestJobLoop(1, needs, id, held,
                                     [need |-> current_need, job |-> held])
             IN  best.job # held

\* JobManager.should_change_job
ShouldChangeJob(history, id, held, today, needs) ==
    LET last_change == FirstChangeOf(history, id)
    IN  IF last_change # 0 /\ today - history[last_change].day < MinDaysBetweenChanges
        THEN FALSE
        ELSE LET current_need == IF held \in JobNames THEN needs[held] * 200 ELSE 0
                 best == BestJobLoop(1, needs, id, held,
                                     [need |-> current_need, job |-> held])
             IN  best.job # held /\ 2 * best.need > 3 * current_need

\* The job assign_new_job picks: the first of the highest adjusted need
NewJobFor(needs, id, held) ==
    BestJobLoop(1, needs, id, held, [need |-> -1, job |-> "farmer"]).job

\* A job manager that keeps one Job object per job name and hands it to every
\* agent of that job
AssignObjectToAgent_OneObjectPerName(st, id, new_job, best_job) ==
    IF st.job_of[id] \in ReadsJobData
    THEN [st EXCEPT !.crashed = TRUE]
    ELSE [st EXCEPT
            !.job_of[id] = best_job,
            !.job_obj[id] = IF \E k \in AgentIds : st.job_of[k] = best_job
                            THEN st.job_obj[CHOOSE k \in AgentIds : st.job_of[k] = best_job]
                            ELSE new_job]

\* Job.assign_to_agent of the Job object new_job named best_job: the job held
\* is removed first (the removal of a job of ReadsJobData raises
\* AttributeError and leaves agent.job as it was), then agent.job = self
AssignObjectToAgent(st, id, new_job, best_job) ==
    IF st.job_of[id] \in ReadsJobData
    THEN [st EXCEPT !.crashed = TRUE]
    ELSE [st EXCEPT !.job_of[id] = best_job, !.job_obj[id] = new_job]

\* The keys of JobManager.current_distribution
DistributionKeys == JobNames \cup {"unemployed"}

\* JobManager.register_agent, on the distribution (a missing key reads 0)
RegisterAgent(distribution, job_name) ==
    [distribution EXCEPT ![job_name] = @ + 1]

\* JobManager.unregister_agent: a key that is present is decremented, and
\* deleted when it reaches 0
UnregisterAgent(distribution, job_name) ==
    IF distribution[job_name] # 0
    THEN [distribution EXCEPT ![job_name] = IF @ - 1 <= 0 THEN 0 ELSE @ - 1]
    ELSE distribution

\* JobManager.assign_new_job on the state st of the daily loop: the agent is
\* unregistered under the job it holds; new_job = job_class() is a new
\* object; after the assignment the agent is registered under its job, and
\* the history record is written, its from_job read from agent.job at that
\* moment
AssignNewJob(st, id, today, needs) ==
    LET unregistered == [st EXCEPT !.distribution =
                                      UnregisterAgent(@, st.job_of[id])]
        best_job == NewJobFor(needs, id, st.job_of[id])
        new_job == st.objects + 1
        assigned == AssignObjectToAgent([unregistered EXCEPT !.objects = new_job],
                                        id, new_job, best_job)
    IN  IF assigned.crashed
        THEN assigned
        ELSE [assigned EXCEPT
                !.distribution = RegisterAgent(@, assigned.job_of[id]),
                !.history = Append(@, [agent_id |-> id,
                                       from_job |-> assigned.job_of[id],
                                       to_job |-> best_job,
                                       day |-> today])]

\* World._evaluate_job_changes: for agent in self.agents (from id on)
RECURSIVE EvaluateJobChanges(_, _, _, _)
EvaluateJobChanges(id, st, today, needs) ==
    IF id > NumAgents \/ st.crashed
    THEN st
    ELSE LET ret == ShouldChangeJob(st.history, id, st.job_of[id], today, needs)
             called == [st EXCEPT !.jcall[id] = [called |-> TRUE, ret |-> ret,
                                                 held |-> st.job_of[id],
                                                 needs |-> needs]]
         IN  EvaluateJobChanges(id + 1,
                                IF ret THEN AssignNewJob(called, id, today, needs)
                                ELSE called,
                                today, needs)

NotCalled ==
    [called |-> FALSE, ret |-> FALSE, held |-> "unemployed",
     needs |-> [j \in JobNames |-> 0]]

IdleJobManager ==
    /\ day = 0
    /\ job_change_history = <<>>
    /\ job_of = [id \in AgentIds |-> "unemployed"]
    /\ job_obj = [id \in AgentIds |-> 0]
    /\ job_objects = 0
    /\ jcall = [id \in AgentIds |-> NotCalled]
    /\ jm_crashed = FALSE
    /\ current_distribution = [j \in DistributionKeys |-> 0]

\* The Job objects of initialize_simulation: job = FarmerJob() for each agent
\* drawn as a farmer, in the order of the agents
InitialJobObject(jobs, id) ==
    IF jobs[id] = "unemployed" THEN 0
    ELSE Cardinality({k \in 1..id : jobs[k] # "unemployed"})

\* JobManager.__init__ and initialize_simulation: farmers and jobless agents.
\* Every agent is passed to World.add_agent before it has a job, so that
\* add_agent registers none of them, and the jobs are then given by
\* assign_to_agent, which does not register either.
InitJobManager ==
    /\ day = 0
    /\ job_change_history = <<>>
    /\ job_of \in [AgentIds -> {"unemployed", "farmer"}]
    /\ job_obj = [id \in AgentIds |-> InitialJobObject(job_of, id)]
    /\ job_objects = Cardinality({id \in AgentIds : job_of[id] # "unemployed"})
    /\ jcall = [id \in AgentIds |-> NotCalled]
    /\ jm_crashed = FALSE
    /\ current_distribution = [j \in DistributionKeys |-> 0]

\* One simulated day: update_village_needs gives the needs of the hour, the
\* evaluation at dawn runs over all agents, and the day passes
DailyEvaluation(needs) ==
    /\ day < MaxDay
    /\ ~jm_crashed
    /\ LET st == EvaluateJobChanges(1,
                    [history |-> job_change_history, job_of |-> job_of,
                     job_obj |-> job_obj, objects |-> job_objects,
                     jcall |-> [id \in AgentIds |-> NotCalled], crashed |-> FALSE,
                     distribution |-> current_distribution],
                    day, needs)
       IN  /\ job_change_history' = st.history
           /\ job_of' = st.job_of
           /\ job_obj' = st.job_obj
           /\ job_objects' = st.objects
           /\ jcall' = st.jcall
           /\ jm_crashed' = st.crashed
           /\ current_distribution' = st.distribution
    /\ day' = day + 1
    /\ UNCHANGED notJobManager

NextJobManager ==
    \E needs \in VillageNeeds : DailyEvaluation(needs)

(***************************************************************************)
(* Claims about the job manager (checked under SpecJobManager)             *)
(***************************************************************************)

\* C6 (as stated): should_change_job returns false whenever fewer than 15 days
\* have passed since the agent's most recent recorded job change, so no two
\* recorded changes of one agent are less than 15 days apart.
C6_FifteenDaysBetweenChanges ==
    [][ (day' = day + 1)
        => /\ \A id \in AgentIds :
                (/\ jcall'[id].called
                 /\ LastChangeOf(job_change_history, id) # 0
                 /\ day - job_change_history[LastChangeOf(job_change_history, id)].day
                        < MinDaysBetweenChanges)
                => ~jcall'[id].ret
           /\ \A i, k \in DOMAIN job_change_history' :
                (i < k /\ job_change_history'[i].agent_id = job_change_history'[k].agent_id)
                => job_change_history'[k].day - job_change_history'[i].day
                       >= MinDaysBetweenChanges ]_vars

\* C25: should_change_job returns true only if some job other than the one
\* the agent holds has a weighted need, need * (0.5 + 0.5 * aptitude), strictly
\* greater than 1.5 times the need of the job held (0 for an agent without a
\* job); when no other job clears that margin it returns false.
C25_ChangeOnlyAboveMargin ==
    [][ (day' = day + 1)
        => \A id \in AgentIds :
              (jcall'[id].called /\ jcall'[id].ret)
              => \E j \in JobNames \ {jcall'[id].held} :
                    2 * jcall'[id].needs[j]
                        * (100 + JobSkillAptitude(id, jcall'[id].held, j))
                      > 3 * 200 * (IF jcall'[id].held \in JobNames
                                   THEN jcall'[id].needs[jcall'[id].held]
                                   ELSE 0) ]_vars

\* An agent whose job is needed has just been told to change, and the
\* evaluation went through
C25_Witness ==
    /\ ~jm_crashed
    /\ \E id \in AgentIds :
          /\ jcall[id].called
          /\ jcall[id].ret
          /\ jcall[id].held \in JobNames
          /\ jcall[id].needs[jcall[id].held] > 0
          /\ job_of[id] # jcall[id].held

\* C26 (as stated): every assign_new_job call that returns appends exactly one
\* record to job_change_history, with the agent's id, as 'from' the job the
\* agent held before the call (or unemployed), as 'to' the job it holds after
\* the call, and as day the current total day.
C26_HistoryRecord ==
    [][ (day' = day + 1)
        => /\ Len(job_change_history')
                = Len(job_change_history)
                  + Cardinality({id \in AgentIds : jcall'[id].called /\ jcall'[id].ret})
                  - (IF jm_crashed' THEN 1 ELSE 0)
           /\ \A i \in (Len(job_change_history) + 1)..Len(job_change_history') :
                LET change == job_change_history'[i]
                IN  /\ jcall'[change.agent_id].ret
                    /\ change.from_job = job_of[change.agent_id]
                    /\ change.to_job = job_of'[change.agent_id]
                    /\ change.day = day ]_vars

C35_DistributionMatchesWorld ==
    \A j \in JobNames :
        /\ current_distribution[j] = Cardinality({id \in AgentIds : job_of[id] = j})
        /\ current_distribution[j] >= 0

(***************************************************************************)
(* Jobs and skills (jobs/job.py and the Job subclasses).  Skills are       *)
(* Python floats: binary floating point, every operation rounded to the    *)
(* nearest representable value, ties to even.  The model keeps that        *)
(* arithmetic with a significand of MantBits bits instead of 53; a float   *)
(* is the integer n standing for n / 2^FracBits.                           *)
(***************************************************************************)
MantBits == 6
MaxSkillOps == 4

FracBits == MantBits + 3

RECURSIVE Pow2(_)
Pow2(k) == IF k = 0 THEN 1 ELSE 2 * Pow2(k - 1)

\* 1.0
One == Pow2(FracBits)

\* The unit in the last place of num/den (in units of 2^-FracBits): the power
\* of two U with U * 2^(MantBits-1) <= num/den < U * 2^MantBits, at least 1
RECURSIVE UlpOf(_, _, _)
UlpOf(num, den, U) ==
    IF num >= U * Pow2(MantBits) * den THEN UlpOf(num, den, 2 * U) ELSE U

\* num/den (num >= 0, den > 0, in units of 2^-FracBits) rounded to the nearest
\* float, ties to even
RoundNearestEven(num, den) ==
    LET D == den * UlpOf(num, den, 1)
        fl == num \div D
        rem == num % D
    IN  IF 2 * rem > D \/ (2 * rem = D /\ fl % 2 = 1)
        THEN (fl + 1) * UlpOf(num, den, 1)
        ELSE fl * UlpOf(num, den, 1)

\* Rounding of a signed quotient
Round(num, den) ==
    IF num < 0 THEN 0 - RoundNearestEven(0 - num, den) ELSE RoundNearestEven(num, den)

\* The float literal numer/denom, e.g. 0.6 = Literal(6, 10)
Literal(numer, denom) == Round(numer * One, denom)

\* x * y, x / y, x + y, x - y on floats
FMul(x, y) == Round(x * y, One)
FDiv(x, y) == Round(x * One, y)
FAdd(x, y) == Round(x + y, 1)
FSub(x, y) == Round(x - y, 1)

\* The skills of Agent.__init__ that the modelled jobs modify
WorkerSkills == {"farming", "mining", "building", "crafting"}
\* and one that a plain agent does not have
SkillArgs == WorkerSkills \cup {"strength"}

\* uniform(0.1, 0.3)
SkillLevels == {Literal(13, 100), Literal(18, 100), Literal(3, 10)}

\* uniform(0.1, 0.5), the skills test_resource_system.py gives its villagers
HarnessSkillLevels == {Literal(45, 100)}

\* Agent.skills after Agent.__init__, or as the simulation harness sets them
SkillProfiles ==
    {[sk \in WorkerSkills |-> l] : l \in SkillLevels \cup HarnessSkillLevels}
    \cup {[sk \in WorkerSkills |->
             CASE sk = "farming" -> Literal(13, 100)
               [] sk = "mining" -> Literal(18, 100)
               [] sk = "building" -> Literal(3, 10)
               [] sk = "crafting" -> Literal(21, 100)]}

WorkerJobs == {"farmer", "builder", "miner"}

\* skill_modifiers of FarmerJob, BuilderJob and MinerJob, in tenths (0 for a
\* skill the job does not name)
SkillModifierTenths(j, skill) ==
    CASE j = "farmer" /\ skill = "farming" -> 15
      [] j = "builder" /\ skill = "building" -> 6
      [] j = "builder" /\ skill = "strength" -> 3
      [] j = "builder" /\ skill = "crafting" -> 2
      [] j = "miner" /\ skill = "mining" -> 5
      [] j = "miner" /\ skill = "strength" -> 4
      [] OTHER -> 0

\* (1.0 + modifier)
BoostFactor(j, skill) == FAdd(One, Literal(SkillModifierTenths(j, skill), 10))

\* The skills each job's progress code passes to improve_skills
ImprovedSkills(j) ==
    CASE j = "builder" -> {"building", "strength"}
      [] j = "miner" -> {"mining", "strength"}
      [] OTHER -> {}

\* amounts passed to improve_skills: 0, 0.01 (practice), and large ones
ImproveAmounts == {0, Literal(1, 100), Literal(3, 10), Literal(3, 2)}

BasicActions == {"wander", "go_home", "find_food", "find_water", "sleeping",
                 "find_shelter", "socialize"}

NewWorker(skills, has_job_data) ==
    [skills |-> skills, job |-> "none", has_job_data |-> has_job_data,
     current_action |-> "none", action_target |-> "none", action_progress |-> 0,
     raised |-> FALSE]

\* A faulty removal that leaves the action of the job running (mutant for
\* C36)
BaseRemoveFromAgent_KeepsAction(w, j) ==
    IF w.job # j
    THEN w
    ELSE [w EXCEPT
            !.skills = [sk \in WorkerSkills |->
                           IF SkillModifierTenths(j, sk) # 0
                           THEN FDiv(w.skills[sk], BoostFactor(j, sk))
                           ELSE w.skills[sk]],
            !.job = "none"]

\* Job.remove_from_agent (job.py:68-93) called on the job of that name the
\* agent holds
BaseRemoveFromAgent(w, j) ==
    IF w.job # j
    THEN w
    ELSE LET reset == w.current_action \notin BasicActions \cup {"none"}
         IN  [w EXCEPT
                !.skills = [sk \in WorkerSkills |->
                               IF SkillModifierTenths(j, sk) # 0
                               THEN FDiv(w.skills[sk], BoostFactor(j, sk))
                               ELSE w.skills[sk]],
                !.job = "none",
                !.current_action = IF reset THEN "none" ELSE @,
                !.action_target = IF reset THEN "none" ELSE @,
                !.action_progress = IF reset THEN 0 ELSE @]

\* <Job subclass>.remove_from_agent: FarmerJob first reads agent.job_data,
\* an AttributeError on an agent without that attribute
RemoveFromAgent(w, j) ==
    IF j \in ReadsJobData /\ ~w.has_job_data
    THEN [w EXCEPT !.raised = TRUE]
    ELSE BaseRemoveFromAgent(w, j)

\* <Job subclass>.remove_from_agent of a Job object of kind j that is not
\* agent.job: the clean-up of the subclass works on the job's own data (or
\* raises, where it reads agent.job_data), and Job.remove_from_agent returns
\* at 'if agent.job != self'
RemoveFromAgentNotHeld(w, j) ==
    IF j \in ReadsJobData /\ ~w.has_job_data
    THEN [w EXCEPT !.raised = TRUE]
    ELSE w

\* The first half of Job.assign_to_agent: remove the job held, if any
RemoveHeldJob(w) ==
    IF w.job # "none" THEN RemoveFromAgent(w, w.job) ELSE w

\* Job.assign_to_agent (job.py:49-66)
AssignToAgent(w, j) ==
    LET w1 == RemoveHeldJob(w)
    IN  IF w1.raised
        THEN w1
        ELSE [w1 EXCEPT
                !.job = j,
                !.skills = [sk \in WorkerSkills |->
                               IF SkillModifierTenths(j, sk) # 0
                               THEN FMul(w1.skills[sk], BoostFactor(j, sk))
                               ELSE w1.skills[sk]]]

\* A faulty improve_skills without the clamp at 1.0 (mutant for C8)
ImproveSkills_NoClamp(w, skill_name, amount) ==
    IF skill_name \in WorkerSkills
    THEN LET skill_level == w.skills[skill_name]
             improvement == FMul(amount, FSub(One, FMul(skill_level, One \div 2)))
         IN  [w EXCEPT !.skills[skill_name] = FAdd(skill_level, improvement)]
    ELSE w

\* Job.improve_skills (job.py:95-108)
ImproveSkills(w, skill_name, amount) ==
    IF skill_name \in WorkerSkills
    THEN LET skill_level == w.skills[skill_name]
             improvement == FMul(amount, FSub(One, FMul(skill_level, One \div 2)))
         IN  [w EXCEPT !.skills[skill_name] = Min(One, FAdd(skill_level, improvement))]
    ELSE w

NoJobCall ==
    [op |-> "none", job |-> "none", skill |-> "none", amount |-> 0,
     held |-> "none", before_action |-> "none"]

IdleJobs ==
    /\ worker = NewWorker([sk \in WorkerSkills |-> Literal(1, 5)], FALSE)
    /\ snapshot = [skills |-> [sk \in WorkerSkills |-> Literal(1, 5)], improved |-> FALSE,
                   original |-> [sk \in WorkerSkills |-> Literal(1, 5)],
                   only_assigned |-> TRUE]
    /\ scall = NoJobCall
    /\ sops = 0

InitJobs ==
    /\ \E skills \in SkillProfiles, has_job_data \in BOOLEAN :
          /\ worker = NewWorker(skills, has_job_data)
          /\ snapshot = [skills |-> skills, improved |-> FALSE,
                         original |-> skills, only_assigned |-> TRUE]
    /\ scall = NoJobCall
    /\ sops = 0

\* job = <Kind>Job(); job.assign_to_agent(agent)
Assign(j) ==
    /\ sops < MaxSkillOps
    /\ ~worker.raised
    /\ worker' = AssignToAgent(worker, j)
    /\ snapshot' = IF RemoveHeldJob(worker).raised
                   THEN snapshot
                   ELSE [snapshot EXCEPT !.skills = RemoveHeldJob(worker).skills,
                                         !.improved = FALSE]
    /\ scall' = [NoJobCall EXCEPT !.op = "assign", !.job = j, !.held = worker.job,
                                  !.before_action = worker.current_action]
    /\ sops' = sops + 1
    /\ UNCHANGED notJobs

\* agent.job.remove_from_agent(agent)
Remove ==
    /\ sops < MaxSkillOps
    /\ ~worker.raised
    /\ worker.job # "none"
    /\ worker' = RemoveFromAgent(worker, worker.job)
    /\ scall' = [NoJobCall EXCEPT !.op = "remove", !.job = worker.job,
                                  !.held = worker.job,
                                  !.before_action = worker.current_action]
    /\ sops' = sops + 1
    /\ snapshot' = [snapshot EXCEPT !.only_assigned = FALSE]
    /\ UNCHANGED notJobs

\* other = <Kind>Job(); other.remove_from_agent(agent), other not agent.job
RemoveNotHeld(j) ==
    /\ sops < MaxSkillOps
    /\ ~worker.raised
    /\ worker' = RemoveFromAgentNotHeld(worker, j)
    /\ scall' = [NoJobCall EXCEPT !.op = "remove_not_held", !.job = j,
                                  !.held = worker.job,
                                  !.before_action = worker.current_action]
    /\ sops' = sops + 1
    /\ snapshot' = [snapshot EXCEPT !.only_assigned = FALSE]
    /\ UNCHANGED notJobs

\* self.improve_skills(agent, skill_name, amount), from the job's progress code
Improve(skill_name, amount) ==
    /\ sops < MaxSkillOps
    /\ ~worker.raised
    /\ worker.job # "none"
    /\ skill_name \in ImprovedSkills(worker.job)
    /\ worker' = ImproveSkills(worker, skill_name, amount)
    /\ snapshot' = [snapshot EXCEPT !.improved = TRUE, !.only_assigned = FALSE]
    /\ scall' = [NoJobCall EXCEPT !.op = "improve", !.job = worker.job,
                                  !.skill = skill_name, !.amount = amount]
    /\ sops' = sops + 1
    /\ UNCHANGED notJobs

\* Agent.step of an agent with no action set: job.decide_action(agent,
\* world) sets one of the job's own actions with agent._set_action(action,
\* target), and job.progress_action advances it
JobDecides ==
    /\ sops < MaxSkillOps
    /\ ~worker.raised
    /\ worker.job # "none"
    /\ worker.current_action = "none"
    /\ \E target \in {"none", "site"} :
          worker' = [worker EXCEPT !.current_action = "work",
                                   !.action_target = target,
                                   !.action_progress = 50]
    /\ scall' = [NoJobCall EXCEPT !.op = "decide", !.job = worker.job]
    /\ sops' = sops + 1
    /\ snapshot' = [snapshot EXCEPT !.only_assigned = FALSE]
    /\ UNCHANGED notJobs

\* Agent.step of an agent with no action set and a need below 30: the agent
\* sets a survival action of its own (find_food, target None), whose
\* progress handler leaves it under way
SurvivalDecides ==
    /\ sops < MaxSkillOps
    /\ ~worker.raised
    /\ worker.current_action = "none"
    /\ worker' = [worker EXCEPT !.current_action = "find_food",
                                !.action_target = "none",
                                !.action_progress = 50]
    /\ scall' = [NoJobCall EXCEPT !.op = "survive", !.job = worker.job]
    /\ sops' = sops + 1
    /\ snapshot' = [snapshot EXCEPT !.only_assigned = FALSE]
    /\ UNCHANGED notJobs

NextJobs ==
    \/ \E j \in WorkerJobs : Assign(j)
    \/ Remove
    \/ \E sk \in SkillArgs, amount \in ImproveAmounts : Improve(sk, amount)
    \/ JobDecides
    \/ SurvivalDecides
    \/ \E j \in WorkerJobs : RemoveNotHeld(j)

(***************************************************************************)
(* Claims about jobs and skills (checked under SpecJobs)                   *)
(***************************************************************************)

\* C7 (as stated): removing the job that was assigned, with no improve_skills
\* in between, restores every skill to exactly its value before the
\* assignment and leaves the agent without a job.
C7_AssignRemoveRoundTrip ==
    [][ (sops' = sops + 1 /\ scall'.op = "remove" /\ ~snapshot.improved)
        => /\ worker'.job = "none"
           /\ worker'.skills = snapshot.skills ]_vars

\* C8: for a skill level in [0,1] and an amount >= 0, improve_skills sets the
\* skill to min(1.0, level + amount * (1 - 0.5 * level)) (in the program's
\* floating-point arithmetic); the skill does not decrease, does not exceed
\* 1.0, and stays at 1.0 once there.
C8_ImproveSkills ==
    [][ (sops' = sops + 1 /\ scall'.op = "improve" /\ scall'.skill \in WorkerSkills
         /\ worker.skills[scall'.skill] >= 0 /\ worker.skills[scall'.skill] <= One
         /\ scall'.amount >= 0)
        => LET level == worker.skills[scall'.skill]
               after == worker'.skills[scall'.skill]
               half == FMul(Literal(1, 2), level)
               sum == FAdd(level, FMul(scall'.amount, FSub(One, half)))
           IN  /\ after = (IF sum > One THEN One ELSE sum)
               /\ after >= level
               /\ after <= One
               /\ (level = One => after = One)
               /\ \A sk \in WorkerSkills \ {scall'.skill} :
                     worker'.skills[sk] = worker.skills[sk] ]_vars

\* C8 witness: an improvement took a skill from below 1.0 up to the clamp.
C8_Witness ==
    /\ scall.op = "improve"
    /\ scall.skill = "building"
    /\ scall.amount = Literal(3, 2)
    /\ worker.skills["building"] = One
    /\ worker.job = "builder"

\* C20 (as stated): every skill of an agent is in [0,1] in every reachable
\* state, in particular after assign_to_agent has multiplied the skills a job
\* names by 1 + modifier and after any number of improve_skills calls.
C20_SkillsInUnitInterval ==
    \A sk \in WorkerSkills : worker.skills[sk] >= 0 /\ worker.skills[sk] <= One

\* C36: a remove_from_agent by the job the agent holds that returns, be it
\* called directly or by the assignment of another job, leaves agent.job
\* None or the new job and current_action None or one of the seven built-in
\* actions; an action of the job is reset to None with target None and
\* progress 0, and a built-in action is left as it was.  remove_from_agent
\* of a job the agent does not hold changes nothing on the agent.
C36_NoOrphanAction ==
    [][ (sops' = sops + 1 /\ ~worker'.raised)
        => /\ (scall'.op \in {"remove", "assign"} /\ worker.job # "none")
              => /\ worker'.job = (IF scall'.op = "assign" THEN scall'.job ELSE "none")
                 /\ worker'.current_action \in BasicActions \cup {"none"}
                 /\ IF worker.current_action \in BasicActions \cup {"none"}
                    THEN /\ worker'.current_action = worker.current_action
                         /\ worker'.action_target = worker.action_target
                         /\ worker'.action_progress = worker.action_progress
                    ELSE /\ worker'.current_action = "none"
                         /\ worker'.action_target = "none"
                         /\ worker'.action_progress = 0
           /\ (scall'.op = "remove_not_held") => worker' = worker ]_vars

\* The assignment of another job has just reset the action of the job held
\* before, which was under way at a target
C36_Witness ==
    /\ scall.op = "assign"
    /\ scall.held = "miner"
    /\ scall.job = "builder"
    /\ scall.before_action = "work"
    /\ worker.job = "builder"
    /\ worker.current_action = "none"
    /\ worker.action_progress = 0
    /\ ~worker.raised

\* C32 (as stated): after assign_to_agent calls only (each removing the job
\* held before), with no improve_skills, every skill is its value at the
\* agent's construction times 1 + modifier of the job now held, and the
\* constructed value itself for a skill that job does not name.
C32_ModifiersNeverStack ==
    (/\ ~worker.raised
     /\ snapshot.only_assigned
     /\ worker.job # "none")
    => \A sk \in WorkerSkills :
          worker.skills[sk] =
              IF SkillModifierTenths(worker.job, sk) # 0
              THEN FMul(snapshot.original[sk], BoostFactor(worker.job, sk))
              ELSE snapshot.original[sk]

(***************************************************************************)
(* World: the two tiers of the village economy (world.py).  Resources go   *)
(* to the storage facilities first; what the facilities cannot take goes   *)
(* to the village ledger (ResourceManager.village_resources).             *)
(***************************************************************************)
MaxWorldOps == 3
MaxWorldFacilities == 4
WorldAmounts == {0, 10, 3000}
LedgerAmounts == {10, 3000}

\* The types the World starts with, and the three of the storage model
WorldTypes == RTypes \cup {"STONE", "WATER"}

\* The keys of the ledger (a type that is absent from the dict reads 0.0)
LedgerTypes == WorldTypes \cup {"HERB", "POTION", "IRON_ORE"}

EmptyLedger == [t \in LedgerTypes |-> 0]

\* ResourceManager.generate_initial_resources: the starting ledger, in the
\* order of the dict
InitialVillageResources ==
    << <<"WOOD", 100>>, <<"STONE", 50>>, <<"FOOD_WHEAT", 200>>, <<"WATER", 100>> >>

\* ResourceManager.add_to_village_storage
AddToVillageStorage(ledger, t, amount) ==
    [ledger |-> [ledger EXCEPT ![t] = @ + amount], ret |-> amount]

\* A faulty take_from_village_storage without the clamp to what is there
TakeFromVillageStorage_NoClamp(ledger, t, amount) ==
    [ledger |-> [ledger EXCEPT ![t] = @ - amount], ret |-> amount]

\* ResourceManager.take_from_village_storage
TakeFromVillageStorage(ledger, t, amount) ==
    LET available == ledger[t]
        taken == Min(amount, available)
    IN  IF taken > 0
        THEN [ledger |-> [ledger EXCEPT ![t] = available - taken], ret |-> taken]
        ELSE [ledger |-> ledger, ret |-> taken]

\* A faulty add_resource_to_storage that drops what the facilities refuse
WorldAddResourceToStorage_DropsRemainder(rmap, ids, fs, ledger, t, amount) ==
    LET m == ManagerAddResource(rmap, ids, fs, t, amount)
    IN  [rmap |-> m.rmap, fs |-> m.fs, ledger |-> ledger,
         ret |-> IF m.ret < amount THEN amount ELSE m.ret,
         physical |-> m.ret, virtual |-> 0]

\* World.add_resource_to_storage
WorldAddResourceToStorage(rmap, ids, fs, ledger, t, amount) ==
    LET m == ManagerAddResource(rmap, ids, fs, t, amount)
        added == m.ret
    IN  IF added < amount
        THEN LET remaining == amount - added
             IN  [rmap |-> m.rmap, fs |-> m.fs,
                  ledger |-> AddToVillageStorage(ledger, t, remaining).ledger,
                  ret |-> amount, physical |-> added, virtual |-> remaining]
        ELSE [rmap |-> m.rmap, fs |-> m.fs, ledger |-> ledger,
              ret |-> added, physical |-> added, virtual |-> 0]

\* World.take_resource_from_storage
WorldTakeResourceFromStorage(rmap, ids, fs, ledger, t, amount) ==
    LET m == ManagerRemoveResource(rmap, ids, fs, t, amount)
        taken == m.ret
    IN  IF taken < amount
        THEN LET remaining == amount - taken
                 v == TakeFromVillageStorage(ledger, t, remaining)
             IN  [rmap |-> m.rmap, fs |-> m.fs, ledger |-> v.ledger,
                  ret |-> taken + v.ret, physical |-> taken, virtual |-> v.ret]
        ELSE [rmap |-> m.rmap, fs |-> m.fs, ledger |-> ledger,
              ret |-> taken, physical |-> taken, virtual |-> 0]

\* World.get_total_resource_amount
WorldGetTotalResourceAmount(ids, fs, ledger, t) ==
    get_total_resource_amount(ids, fs, t) + ledger[t]

\* A storage facility of the World: its dict can hold every World type
NewWorldFacility(k) ==
    [kind |-> k, capacity |-> DefaultCapacity(k),
     resources |-> [t \in WorldTypes |-> 0], condition |-> 100]

\* World._distribute_initial_resources: the ledger is emptied and every
\* starting resource is offered to the facilities, the rest returns to it
RECURSIVE DistributeInitial(_, _, _)
DistributeInitial(initial, ids, st) ==
    IF initial = <<>> THEN st
    ELSE LET t == Head(initial)[1]
             amount == Head(initial)[2]
             m == ManagerAddResource(st.rmap, ids, st.fs, t, amount)
             led == IF m.ret < amount
                    THEN AddToVillageStorage(st.ledger, t, amount - m.ret).ledger
                    ELSE st.ledger
         IN  DistributeInitial(Tail(initial), ids,
                               [rmap |-> m.rmap, fs |-> m.fs, ledger |-> led])

\* World._initialize_village: a Warehouse, a Granary and a Stockpile, then
\* the distribution of the starting resources
InitializeVillage ==
    DistributeInitial(InitialVillageResources, <<1, 2, 3>>,
        [rmap |-> [t \in WorldTypes |-> [cached |-> FALSE, list |-> <<>>]],
         fs |-> <<NewWorldFacility("Warehouse"), NewWorldFacility("Granary"),
                  NewWorldFacility("Stockpile")>>,
         ledger |-> EmptyLedger])

\* dict.get(key, default)
DictGet(d, key, default) == IF key \in DOMAIN d THEN d[key] ELSE default

\* JobManager.__init__: village_needs, here in tenths
NoNeeds == [mining |-> 0, crafting |-> 0]

\* An update_village_needs that looks the amounts up under the ResourceType
\* members
UpdateVillageNeeds_MemberKeys(ledger) ==
    LET stone_amount == DictGet(ledger, "STONE", 0)
        ore_amount == DictGet(ledger, "IRON_ORE", 0)
        tools_amount == DictGet(ledger, "BASIC_TOOLS", 0)
                          + DictGet(ledger, "ADVANCED_TOOLS", 0)
        weapons_amount == DictGet(ledger, "WEAPONS", 0)
    IN  [mining |-> IF stone_amount < 50 \/ ore_amount < 20
                    THEN Max(0, 50 - stone_amount) + Max(0, 2 * (20 - ore_amount))
                    ELSE 0,
         crafting |-> IF tools_amount < 10 \/ weapons_amount < 5
                      THEN Max(0, 5 * (10 - tools_amount))
                             + Max(0, 10 * (5 - weapons_amount))
                      ELSE 0]

\* JobManager.update_village_needs, the mining and crafting needs, in tenths.
\* The keys of the ledger are ResourceType members, written "STONE" here; the
\* method looks up the strs 'STONE', 'IRON_ORE', 'BASIC_TOOLS', 'ADVANCED_TOOLS'
\* and 'WEAPONS', written "'STONE'" and so on, and a member of an Enum is
\* never equal to a str
UpdateVillageNeeds(ledger) ==
    LET stone_amount == DictGet(ledger, "'STONE'", 0)
        ore_amount == DictGet(ledger, "'IRON_ORE'", 0)
        tools_amount == DictGet(ledger, "'BASIC_TOOLS'", 0)
                          + DictGet(ledger, "'ADVANCED_TOOLS'", 0)
        weapons_amount == DictGet(ledger, "'WEAPONS'", 0)
    IN  [mining |-> IF stone_amount < 50 \/ ore_amount < 20
                    THEN Max(0, 50 - stone_amount) + Max(0, 2 * (20 - ore_amount))
                    ELSE 0,
         crafting |-> IF tools_amount < 10 \/ weapons_amount < 5
                      THEN Max(0, 5 * (10 - tools_amount))
                             + Max(0, 10 * (5 - weapons_amount))
                      ELSE 0]

NoWorldCall ==
    [op |-> "none", rtype |-> "WOOD", amount |-> 0, ret |-> 0,
     physical |-> 0, virtual |-> 0]

\* The World at rest, for the specifications of the other subsystems
IdleWorld ==
    /\ village_resources = EmptyLedger
    /\ village_needs = NoNeeds
    /\ wcall = NoWorldCall
    /\ wops = 0

\* World.__init__
InitWorld ==
    /\ fac = InitializeVillage.fs
    /\ storage_facilities = <<1, 2, 3>>
    /\ resource_map = InitializeVillage.rmap
    /\ call = NoCall
    /\ nops = 0
    /\ village_resources = InitializeVillage.ledger
    /\ village_needs = NoNeeds
    /\ wcall = NoWorldCall
    /\ wops = 0

\* world.add_resource_to_storage(t, amount)
AddResourceToStorage(t, amount) ==
    /\ wops < MaxWorldOps
    /\ LET r == WorldAddResourceToStorage(resource_map, storage_facilities, fac,
                                          village_resources, t, amount)
       IN  /\ fac' = r.fs
           /\ resource_map' = r.rmap
           /\ village_resources' = r.ledger
           /\ wcall' = [op |-> "add_resource_to_storage", rtype |-> t,
                        amount |-> amount, ret |-> r.ret,
                        physical |-> r.physical, virtual |-> r.virtual]
    /\ wops' = wops + 1
    /\ UNCHANGED village_needs
    /\ UNCHANGED <<storage_facilities, call, nops>>
    /\ UNCHANGED notWorld

\* world.take_resource_from_storage(t, amount)
TakeResourceFromStorage(t, amount) ==
    /\ wops < MaxWorldOps
    /\ LET r == WorldTakeResourceFromStorage(resource_map, storage_facilities, fac,
                                             village_resources, t, amount)
       IN  /\ fac' = r.fs
           /\ resource_map' = r.rmap
           /\ village_resources' = r.ledger
           /\ wcall' = [op |-> "take_resource_from_storage", rtype |-> t,
                        amount |-> amount, ret |-> r.ret,
                        physical |-> r.physical, virtual |-> r.virtual]
    /\ wops' = wops + 1
    /\ UNCHANGED village_needs
    /\ UNCHANGED <<storage_facilities, call, nops>>
    /\ UNCHANGED notWorld

\* world.storage_manager.add_facility(facility), as test_resource_system.py
\* does for an Armory after the World is built
WorldAddFacility(k) ==
    /\ wops < MaxWorldOps
    /\ Len(fac) < MaxWorldFacilities
    /\ fac' = Append(fac, NewWorldFacility(k))
    /\ storage_facilities' = Append(storage_facilities, Len(fac) + 1)
    /\ wcall' = [NoWorldCall EXCEPT !.op = "add_facility"]
    /\ wops' = wops + 1
    /\ UNCHANGED village_needs
    /\ UNCHANGED <<resource_map, call, nops, village_resources>>
    /\ UNCHANGED notWorld

\* world.resource_manager.add_to_village_storage(t, amount), the deposit the
\* jobs make
LedgerAdd(t, amount) ==
    /\ wops < MaxWorldOps
    /\ LET r == AddToVillageStorage(village_resources, t, amount)
       IN  /\ village_resources' = r.ledger
           /\ wcall' = [op |-> "add_to_village_storage", rtype |-> t,
                        amount |-> amount, ret |-> r.ret,
                        physical |-> 0, virtual |-> r.ret]
    /\ wops' = wops + 1
    /\ UNCHANGED village_needs
    /\ UNCHANGED storageVars
    /\ UNCHANGED notWorld

\* world.resource_manager.take_from_village_storage(t, amount)
LedgerTake(t, amount) ==
    /\ wops < MaxWorldOps
    /\ LET r == TakeFromVillageStorage(village_resources, t, amount)
       IN  /\ village_resources' = r.ledger
           /\ wcall' = [op |-> "take_from_village_storage", rtype |-> t,
                        amount |-> amount, ret |-> r.ret,
                        physical |-> 0, virtual |-> r.ret]
    /\ wops' = wops + 1
    /\ UNCHANGED village_needs
    /\ UNCHANGED storageVars
    /\ UNCHANGED notWorld

\* job_manager.update_village_needs(world), the mining and crafting part
UpdateVillageNeedsCall ==
    /\ wops < MaxWorldOps
    /\ village_needs' = UpdateVillageNeeds(village_resources)
    /\ wcall' = [NoWorldCall EXCEPT !.op = "update_village_needs"]
    /\ wops' = wops + 1
    /\ UNCHANGED village_resources
    /\ UNCHANGED storageVars
    /\ UNCHANGED notWorld

NextWorld ==
    \/ \E t \in RTypes, a \in WorldAmounts : AddResourceToStorage(t, a)
    \/ \E t \in RTypes, a \in WorldAmounts : TakeResourceFromStorage(t, a)
    \/ \E k \in Kinds : WorldAddFacility(k)
    \/ \E t \in RTypes, a \in LedgerAmounts : LedgerAdd(t, a)
    \/ \E t \in RTypes, a \in LedgerAmounts : LedgerTake(t, a)
    \/ UpdateVillageNeedsCall

\* The capacity left in the facilities the manager fills for type t
RECURSIVE SumAvailableIn(_, _)
SumAvailableIn(list, fs) ==
    IF list = <<>> THEN 0
    ELSE get_available_capacity(fs[Head(list)]) + SumAvailableIn(Tail(list), fs)

C27_NeedsFromShortfall ==
    [][ (wops' = wops + 1 /\ wcall'.op = "update_village_needs")
        => LET stone == DictGet(village_resources, "STONE", 0)
               ore == DictGet(village_resources, "IRON_ORE", 0)
               tools == DictGet(village_resources, "BASIC_TOOLS", 0)
                          + DictGet(village_resources, "ADVANCED_TOOLS", 0)
               weapons == DictGet(village_resources, "WEAPONS", 0)
           IN  /\ village_needs'.mining
                     = Max(0, 50 - stone) + Max(0, 2 * (20 - ore))
               /\ village_needs'.crafting
                     = Max(0, 5 * (10 - tools)) + Max(0, 10 * (5 - weapons)) ]_vars

MaxVillageOps == 2

\* agent.skills[...] at the time of a call
SkillPcts == {20, 100}

\* BuilderJob.building_recipes: wood, stone, time
Recipes ==
    [house        |-> [wood |-> 5000, stone |-> 3000, time |-> 5],
     wall_section |-> [wood |-> 1000, stone |-> 3000, time |-> 2]]

BuildTypes == DOMAIN Recipes

\* The record a handler returns (None when returned is FALSE)
NoRecord == [returned |-> FALSE, action |-> "none", reason |-> "none"]
Record(action, reason) == [returned |-> TRUE, action |-> action, reason |-> reason]

\* agent._set_action(action, target)
SetJobAction(j, action) ==
    [j EXCEPT !.current_action = action, !.action_progress = 0]

\* BuilderJob._is_buildable for the site the builder works on: the recipe
\* must exist and no building, agent or raw resource may stand on the site.
\* clear says that nothing else stands there; the builder itself is an agent
\* of world.agents and stands there whenever it is at the site.
IsBuildable(j, s, clear) ==
    /\ j.current \in BuildTypes
    /\ clear
    /\ ~s.building_present
    /\ ~j.at_target

\* BuilderJob._progress_build
ProgressBuild(j, s, ledger, clear, skill) ==
    IF j.current = "none"
    THEN [j |-> [j EXCEPT !.action_progress = 1000], s |-> s, ledger |-> ledger,
          rec |-> Record("build_failed", "no_project")]
    ELSE IF ~j.at_target
    THEN [j |-> SetJobAction(j, "go_to_build_site"), s |-> s, ledger |-> ledger,
          rec |-> NoRecord]
    ELSE IF ~IsBuildable(j, s, clear) \/ j.current \notin BuildTypes
    THEN [j |-> [j EXCEPT !.current = "none", !.action_progress = 1000],
          s |-> s, ledger |-> ledger,
          rec |-> Record("build_cancelled", "invalid_site")]
    ELSE LET recipe == Recipes[j.current]
         IN  IF ledger["WOOD"] < recipe.wood
             THEN [j |-> [j EXCEPT !.current = "none", !.action_progress = 1000],
                   s |-> s, ledger |-> ledger,
                   rec |-> Record("build_failed", "not_enough_wood")]
             ELSE IF ledger["STONE"] < recipe.stone
             THEN [j |-> [j EXCEPT !.current = "none", !.action_progress = 1000],
                   s |-> s, ledger |-> ledger,
                   rec |-> Record("build_failed", "not_enough_stone")]
             ELSE IF j.action_progress < 950
             THEN [j |-> [j EXCEPT !.action_progress =
                              @ + (50 \div recipe.time) + ((skill * 50) \div 100)],
                   s |-> s, ledger |-> ledger, rec |-> NoRecord]
             ELSE LET l1 == TakeFromVillageStorage(ledger, "WOOD", recipe.wood).ledger
                      l2 == TakeFromVillageStorage(l1, "STONE", recipe.stone).ledger
                  IN  [j |-> [j EXCEPT !.action_progress = 1000,
                                       !.current = "none",
                                       !.career = @ + 1],
                       s |-> s, ledger |-> l2,
                       rec |-> Record("building_completed", "none")]

\* repair_cost of BuilderJob._progress_repair
RepairCost(condition) ==
    [wood  |-> Max(500, (10000 - condition) \div 10),
     stone |-> Max(300, (10000 - condition) \div 20)]

\* BuilderJob._progress_repair
ProgressRepair(j, s, ledger, skill) ==
    IF j.current = "none"
    THEN [j |-> [j EXCEPT !.action_progress = 1000], s |-> s, ledger |-> ledger,
          rec |-> Record("repair_failed", "no_project")]
    ELSE IF ~j.at_target
    THEN [j |-> SetJobAction(j, "go_to_repair_site"), s |-> s, ledger |-> ledger,
          rec |-> NoRecord]
    ELSE IF ~s.building_present \/ s.condition >= 10000
    THEN [j |-> [j EXCEPT !.current = "none", !.action_progress = 1000],
          s |-> s, ledger |-> ledger,
          rec |-> Record("repair_complete", "none")]
    ELSE LET repair_cost == RepairCost(s.condition)
         IN  IF ledger["WOOD"] < repair_cost.wood \/ ledger["STONE"] < repair_cost.stone
             THEN [j |-> [j EXCEPT !.current = "none", !.action_progress = 1000],
                   s |-> s, ledger |-> ledger,
                   rec |-> Record("repair_failed", "not_enough_resources")]
             ELSE IF j.action_progress < 950
             THEN [j |-> [j EXCEPT !.action_progress = @ + 100 + skill],
                   s |-> s, ledger |-> ledger, rec |-> NoRecord]
             ELSE LET l1 == TakeFromVillageStorage(ledger, "WOOD", repair_cost.wood).ledger
                      l2 == TakeFromVillageStorage(l1, "STONE", repair_cost.stone).ledger
                      repair_amount == 2000 + skill * 30
                  IN  [j |-> [j EXCEPT !.action_progress = 1000,
                                       !.current = "none",
                                       !.career = @ + 1],
                       s |-> [s EXCEPT !.condition = Min(10000, @ + repair_amount)],
                       ledger |-> l2,
                       rec |-> Record("building_repaired", "none")]

\* MinerJob max_carry_capacity
MaxCarry == 4000

\* A faulty handler that leaves a vanished deposit assigned and the action
\* running, and drops the load (mutant for C17)
ProgressMineDeposit_KeepsStaleDeposit(j, s, ledger, skill) ==
    IF ~j.at_target
    THEN [j |-> SetJobAction(j, "go_to_deposit"), s |-> s, ledger |-> ledger,
          rec |-> NoRecord]
    ELSE IF ~(s.node_present /\ s.node_type = j.current)
    THEN [j |-> [j EXCEPT !.stone_stockpile = 0, !.ore_stockpile = 0],
          s |-> s, ledger |-> ledger,
          rec |-> Record("deposit_depleted", "none")]
    ELSE IF j.action_progress < 950
    THEN [j |-> [j EXCEPT !.action_progress = @ + 100 + ((skill * 150) \div 100)],
          s |-> s, ledger |-> ledger, rec |-> NoRecord]
    ELSE LET mineral_amount == 500 + skill * 15
             j1 == IF j.current = "STONE"
                   THEN [j EXCEPT !.action_progress = 1000,
                                  !.stone_stockpile = @ + mineral_amount]
                   ELSE [j EXCEPT !.action_progress = 1000,
                                  !.ore_stockpile = @ + mineral_amount]
             quantity == s.node_quantity - 100
             gone == quantity <= 0
             s1 == [s EXCEPT !.node_quantity = quantity,
                             !.node_present = ~gone]
             j2 == IF gone THEN [j1 EXCEPT !.career = @ + 1] ELSE j1
             j3 == IF j2.ore_stockpile + j2.stone_stockpile >= MaxCarry
                   THEN SetJobAction(j2, "return_with_minerals")
                   ELSE j2
         IN  [j |-> j3, s |-> s1, ledger |-> ledger,
              rec |-> Record("mined", "none")]

\* MinerJob._progress_mine_deposit
ProgressMineDeposit(j, s, ledger, skill) ==
    IF ~j.at_target
    THEN [j |-> SetJobAction(j, "go_to_deposit"), s |-> s, ledger |-> ledger,
          rec |-> NoRecord]
    ELSE IF ~(s.node_present /\ s.node_type = j.current)
    THEN [j |-> [j EXCEPT !.action_progress = 1000, !.current = "none"],
          s |-> s, ledger |-> ledger,
          rec |-> Record("deposit_depleted", "none")]
    ELSE IF j.action_progress < 950
    THEN [j |-> [j EXCEPT !.action_progress = @ + 100 + ((skill * 150) \div 100)],
          s |-> s, ledger |-> ledger, rec |-> NoRecord]
    ELSE LET mineral_amount == 500 + skill * 15
             j1 == IF j.current = "STONE"
                   THEN [j EXCEPT !.action_progress = 1000,
                                  !.stone_stockpile = @ + mineral_amount]
                   ELSE [j EXCEPT !.action_progress = 1000,
                                  !.ore_stockpile = @ + mineral_amount]
             quantity == s.node_quantity - 100
             gone == quantity <= 0
             s1 == [s EXCEPT !.node_quantity = quantity,
                             !.node_present = ~gone]
             j2 == IF gone THEN [j1 EXCEPT !.career = @ + 1] ELSE j1
             j3 == IF j2.ore_stockpile + j2.stone_stockpile >= MaxCarry
                   THEN SetJobAction(j2, "return_with_minerals")
                   ELSE j2
         IN  [j |-> j3, s |-> s1, ledger |-> ledger,
              rec |-> Record("mined", "none")]

\* MinerJob._progress_return_with_minerals; arrives says whether the step
\* taken reaches the village
ProgressReturnWithMinerals(j, s, ledger, arrives) ==
    IF j.at_target
    THEN LET l1 == IF j.stone_stockpile > 0
                   THEN AddToVillageStorage(ledger, "STONE", j.stone_stockpile).ledger
                   ELSE ledger
             l2 == IF j.ore_stockpile > 0
                   THEN AddToVillageStorage(l1, "IRON_ORE", j.ore_stockpile).ledger
                   ELSE l1
         IN  [j |-> [j EXCEPT !.stone_stockpile = 0, !.ore_stockpile = 0,
                              !.action_progress = 1000],
              s |-> s, ledger |-> l2,
              rec |-> Record("deposited_minerals", "none")]
    ELSE [j |-> [j EXCEPT !.at_target = arrives,
                          !.action_progress = IF arrives THEN 1000 ELSE 500],
          s |-> s, ledger |-> ledger, rec |-> NoRecord]

\* A handler left by KeyError: agent.skills has no "healing" entry
Raised(j) == [j EXCEPT !.crashed = TRUE]

\* HealerJob._progress_treat_patient
ProgressTreatPatient(j, s, ledger, skill) ==
    IF ~s.patient_present \/ s.patient_health >= 10000
    THEN [j |-> [j EXCEPT !.action_progress = 1000, !.current = "none"],
          s |-> s, ledger |-> ledger,
          rec |-> Record("treatment_complete", "patient_healthy")]
    ELSE IF ~j.at_target
    THEN [j |-> SetJobAction(j, "go_to_patient"), s |-> s, ledger |-> ledger,
          rec |-> NoRecord]
    ELSE LET has_potions == ledger["POTION"] >= 100
         IN  IF j.action_progress < 900
             THEN IF ~j.knows_healing
                  THEN [j |-> Raised(j), s |-> s, ledger |-> ledger, rec |-> NoRecord]
                  ELSE [j |-> [j EXCEPT !.action_progress = @ + 150 + skill],
                        s |-> s, ledger |-> ledger, rec |-> NoRecord]
             ELSE IF ~j.knows_healing
                  THEN [j |-> Raised([j EXCEPT !.action_progress = 1000]),
                        s |-> s, ledger |-> ledger, rec |-> NoRecord]
                  ELSE LET base_healing == 1000 + skill * 20
                           l1 == IF has_potions
                                 THEN TakeFromVillageStorage(ledger, "POTION", 100).ledger
                                 ELSE ledger
                           total_healing == IF has_potions
                                            THEN base_healing + (base_healing \div 2)
                                            ELSE base_healing
                       IN  [j |-> [j EXCEPT !.action_progress = 1000,
                                            !.career = @ + 1,
                                            !.current = "none"],
                            s |-> [s EXCEPT !.patient_health =
                                               Min(10000, @ + total_healing)],
                            ledger |-> l1,
                            rec |-> Record("treated_patient", "none")]

\* HealerJob._progress_create_potion
ProgressCreatePotion(j, s, ledger, skill) ==
    IF ~j.at_target
    THEN [j |-> SetJobAction(j, "go_to_infirmary"), s |-> s, ledger |-> ledger,
          rec |-> NoRecord]
    ELSE IF ledger["HERB"] < 500
    THEN [j |-> [j EXCEPT !.action_progress = 1000], s |-> s, ledger |-> ledger,
          rec |-> Record("potion_creation_failed", "not_enough_herbs")]
    ELSE IF j.action_progress < 900
    THEN IF ~j.knows_healing
         THEN [j |-> Raised(j), s |-> s, ledger |-> ledger, rec |-> NoRecord]
         ELSE [j |-> [j EXCEPT !.action_progress = @ + 150 + ((skill * 150) \div 100)],
               s |-> s, ledger |-> ledger, rec |-> NoRecord]
    ELSE LET l1 == TakeFromVillageStorage(ledger, "HERB", 500).ledger
         IN  IF ~j.knows_healing
             THEN [j |-> Raised([j EXCEPT !.action_progress = 1000]),
                   s |-> s, ledger |-> l1, rec |-> NoRecord]
             ELSE LET potion_quality == 100 + (skill \div 2)
                  IN  [j |-> [j EXCEPT !.action_progress = 1000, !.career = @ + 1],
                       s |-> s,
                       ledger |-> AddToVillageStorage(l1, "POTION", potion_quality).ledger,
                       rec |-> Record("created_potion", "none")]

\* job.progress_action: the dispatch on agent.current_action
JobProgressAction(j, s, ledger, clear, skill, arrives) ==
    CASE j.current_action = "build"  -> ProgressBuild(j, s, ledger, clear, skill)
      [] j.current_action = "repair" -> ProgressRepair(j, s, ledger, skill)
      [] j.current_action = "mine_deposit" -> ProgressMineDeposit(j, s, ledger, skill)
      [] j.current_action = "return_with_minerals"
            -> ProgressReturnWithMinerals(j, s, ledger, arrives)
      [] j.current_action = "treat_patient" -> ProgressTreatPatient(j, s, ledger, skill)
      [] j.current_action = "create_potion" -> ProgressCreatePotion(j, s, ledger, skill)
      [] OTHER -> [j |-> j, s |-> s, ledger |-> ledger, rec |-> NoRecord]

\* The actions modelled for each job
HandledActions ==
    [builder |-> {"build", "repair"},
     miner   |-> {"mine_deposit", "return_with_minerals"},
     healer  |-> {"treat_patient", "create_potion"}]

\* ThreatType.get_resource_targets of a TROLL
LootTargets == <<"FOOD_WHEAT", "STONE">>

\* random.randint(...) * self.strength, for each looted type
LootRolls == {300, 2000}

\* The loop of Threat._process_looting over the targeted resources
RECURSIVE LootLoop(_, _, _, _)
LootLoop(targets, ledger, roll, looted) ==
    IF targets = <<>> THEN [ledger |-> ledger, looted |-> looted]
    ELSE LET t == Head(targets)
             amount == Min(ledger[t], roll[t])
             r == IF amount > 0 THEN TakeFromVillageStorage(ledger, t, amount)
                                ELSE [ledger |-> ledger, ret |-> 0]
         IN  LootLoop(Tail(targets), r.ledger, roll, looted + r.ret)

\* Threat._process_looting at the site: a building standing there is damaged
\* first and the ledger is looted only when it falls; with no building the
\* ledger is looted at once
ProcessLooting(s, ledger, damage_potential, roll) ==
    IF s.building_present
    THEN LET damage == Min(damage_potential, s.condition)
             s1 == [s EXCEPT !.condition = @ - damage]
         IN  IF s1.condition <= 0
             THEN LET l == LootLoop(LootTargets, ledger, roll, 0)
                  IN  [s |-> s1, ledger |-> l.ledger, looted |-> l.looted]
             ELSE [s |-> s1, ledger |-> ledger, looted |-> 0]
    ELSE LET l == LootLoop(LootTargets, ledger, roll, 0)
         IN  [s |-> s, ledger |-> l.ledger, looted |-> l.looted]

NoVillageCall ==
    [op |-> "none", rec |-> NoRecord, clear |-> FALSE, looted |-> 0,
     rtype |-> "WOOD", amount |-> 0, ret |-> 0]

NoJobholder ==
    [job |-> "none", current_action |-> "none", action_progress |-> 0,
     at_target |-> FALSE, current |-> "none", stone_stockpile |-> 0,
     ore_stockpile |-> 0, herb_stockpile |-> 0, trade_wood |-> 0,
     knows_healing |-> FALSE, career |-> 0, crashed |-> FALSE]

NoSite ==
    [building_present |-> FALSE, condition |-> 0,
     node_present |-> FALSE, node_type |-> "STONE", node_quantity |-> 0,
     patient_present |-> FALSE, patient_health |-> 0]

\* The job handlers at rest, for the specifications of the other subsystems
IdleVillage ==
    /\ jobholder = NoJobholder
    /\ site = NoSite
    /\ vcall = NoVillageCall
    /\ vops = 0

\* action_progress as the ticks before left it: just set, after seven ticks
\* of 0.13 each (mining at skill 0.2), and past the completion threshold
ProgressLevels == {0, 910, 960}

\* A builder with a build or a repair under way: decide_action sets either
\* action only when the builder stands at the site
Builders ==
    { [NoJobholder EXCEPT !.job = "builder", !.current_action = a,
                          !.current = c, !.at_target = TRUE,
                          !.action_progress = p] :
        a \in {"build", "repair"}, c \in {"none", "house", "wall_section", "repair"},
        p \in ProgressLevels }

\* A miner with a deposit assigned, mining (decide_action sets mine_deposit
\* only at the deposit) or on the way back
Miners ==
    { m \in { [NoJobholder EXCEPT !.job = "miner", !.current_action = a,
                                  !.current = c, !.at_target = at,
                                  !.action_progress = p, !.stone_stockpile = st] :
                a \in {"mine_deposit", "return_with_minerals"},
                c \in {"STONE", "IRON_ORE"}, at \in BOOLEAN,
                p \in ProgressLevels, st \in {0, 3500} } :
        m.current_action = "mine_deposit" => m.at_target }

\* A healer treating a patient or brewing, with or without the skill entry
Healers ==
    { [NoJobholder EXCEPT !.job = "healer", !.current_action = a,
                          !.current = "patient", !.at_target = at,
                          !.action_progress = p, !.herb_stockpile = h,
                          !.knows_healing = k] :
        a \in {"treat_patient", "create_potion"}, at \in BOOLEAN,
        p \in ProgressLevels, h \in {0, 800}, k \in BOOLEAN }

\* A merchant carrying trade goods
Merchants ==
    { [NoJobholder EXCEPT !.job = "merchant", !.trade_wood = w] : w \in {0, 2000} }

\* What stands at the target of each job
SitesOf(job) ==
    CASE job = "builder" ->
            {NoSite} \cup { [NoSite EXCEPT !.building_present = TRUE, !.condition = c] :
                              c \in {4000, 10000} }
      [] job = "miner" ->
            {NoSite} \cup { [NoSite EXCEPT !.node_present = TRUE, !.node_type = t,
                                           !.node_quantity = q] :
                              t \in {"STONE", "IRON_ORE"}, q \in {100, 5000} }
      [] job = "healer" ->
            {NoSite} \cup { [NoSite EXCEPT !.patient_present = TRUE,
                                           !.patient_health = h] :
                              h \in {5000, 9500, 10000} }
      [] OTHER -> {NoSite}

\* The ledgers the village can have reached, as far as each job reads them
LedgersOf(job) ==
    IF job = "builder"
    THEN { [EmptyLedger EXCEPT !["WOOD"] = w, !["STONE"] = st,
                               !["FOOD_WHEAT"] = 2000] :
             w \in {0, 700, 6000}, st \in {0, 400, 3000} }
    ELSE { [EmptyLedger EXCEPT !["WOOD"] = 60 * po, !["STONE"] = 30 * po,
                               !["POTION"] = po, !["HERB"] = 5 * po,
                               !["FOOD_WHEAT"] = 20 * po] :
             po \in {0, 100} }

InitVillage ==
    /\ jobholder \in Builders \cup Miners \cup Healers \cup Merchants
    /\ site \in SitesOf(jobholder.job)
    /\ village_resources \in LedgersOf(jobholder.job)
    /\ vcall = NoVillageCall
    /\ vops = 0
    /\ village_needs = NoNeeds
    /\ wcall = NoWorldCall
    /\ wops = 0

\* agent.step reaching job.progress_action(agent, world, time_delta)
JobProgress ==
    /\ vops < MaxVillageOps
    /\ ~jobholder.crashed
    /\ jobholder.job \in DOMAIN HandledActions
    /\ jobholder.current_action \in HandledActions[jobholder.job]
    /\ jobholder.action_progress < 1000
    /\ \E clear \in BOOLEAN, skill \in SkillPcts, arrives \in BOOLEAN :
          LET r == JobProgressAction(jobholder, site, village_resources,
                                     clear, skill, arrives)
          IN  /\ jobholder' = r.j
              /\ site' = r.s
              /\ village_resources' = r.ledger
              /\ vcall' = [NoVillageCall EXCEPT !.op = jobholder.current_action,
                                                !.rec = r.rec, !.clear = clear]
    /\ vops' = vops + 1
    /\ UNCHANGED notVillage

\* threat.attack_village reaching _process_looting at the site
Loot ==
    /\ vops < MaxVillageOps
    /\ \E damage_potential \in {2000, 10000}, rolled \in LootRolls :
          LET roll == [t \in {"FOOD_WHEAT", "STONE"} |-> rolled] IN
          LET r == ProcessLooting(site, village_resources, damage_potential, roll)
          IN  /\ site' = r.s
              /\ village_resources' = r.ledger
              /\ vcall' = [NoVillageCall EXCEPT !.op = "loot", !.looted = r.looted]
    /\ vops' = vops + 1
    /\ UNCHANGED jobholder
    /\ UNCHANGED notVillage

\* Deposits and withdrawals other villagers make in the meantime
VillageLedgerAdd(t, amount) ==
    /\ vops < MaxVillageOps
    /\ LET r == AddToVillageStorage(village_resources, t, amount)
       IN  /\ village_resources' = r.ledger
           /\ vcall' = [NoVillageCall EXCEPT !.op = "add_to_village_storage",
                                             !.rtype = t, !.amount = amount,
                                             !.ret = r.ret]
    /\ vops' = vops + 1
    /\ UNCHANGED <<jobholder, site>>
    /\ UNCHANGED notVillage

VillageLedgerTake(t, amount) ==
    /\ vops < MaxVillageOps
    /\ LET r == TakeFromVillageStorage(village_resources, t, amount)
       IN  /\ village_resources' = r.ledger
           /\ vcall' = [NoVillageCall EXCEPT !.op = "take_from_village_storage",
                                             !.rtype = t, !.amount = amount,
                                             !.ret = r.ret]
    /\ vops' = vops + 1
    /\ UNCHANGED <<jobholder, site>>
    /\ UNCHANGED notVillage

\* job.remove_from_agent(agent) of the job the villager holds: the subclass
\* clean-up, then Job.remove_from_agent
RemoveFromAgentJob(j) ==
    LET cleaned ==
          CASE j.job = "miner" ->
                 IF j.stone_stockpile > 0 \/ j.ore_stockpile > 0
                 THEN [j EXCEPT !.stone_stockpile = 0, !.ore_stockpile = 0]
                 ELSE j
            [] j.job = "healer" ->
                 [j EXCEPT !.herb_stockpile = 0, !.current = "none"]
            [] j.job = "merchant" -> [j EXCEPT !.trade_wood = 0]
            [] j.job = "builder" -> [j EXCEPT !.current = "none"]
            [] OTHER -> j
    IN  IF cleaned.current_action # "none"
        THEN [cleaned EXCEPT !.job = "none", !.current_action = "none",
                             !.action_progress = 0]
        ELSE [cleaned EXCEPT !.job = "none"]

\* The job manager (or an assignment of another job) taking the job away
VillageRemoveFromAgent ==
    /\ vops < MaxVillageOps
    /\ ~jobholder.crashed
    /\ jobholder.job # "none"
    /\ jobholder' = RemoveFromAgentJob(jobholder)
    /\ vcall' = [NoVillageCall EXCEPT !.op = "remove_from_agent"]
    /\ vops' = vops + 1
    /\ UNCHANGED <<site, village_resources>>
    /\ UNCHANGED notVillage

NextVillage ==
    \/ JobProgress
    \/ Loot
    \/ VillageRemoveFromAgent
    \/ \E t \in {"WOOD", "STONE"}, a \in {5000} : VillageLedgerAdd(t, a)
    \/ \E t \in {"WOOD"}, a \in {50, 8000} : VillageLedgerTake(t, a)

\* C13: the village ledger never holds a negative amount, whatever builder
\* completions, potion uses, lootings, deposits and withdrawals happened;
\* take_from_village_storage returns min(amount, available) and subtracts
\* exactly that; add_to_village_storage adds and returns the full amount.
C13_LedgerNonNegative ==
    /\ [](\A t \in LedgerTypes : village_resources[t] >= 0)
    /\ [][ (vops' = vops + 1 /\ vcall'.op = "take_from_village_storage")
           => /\ vcall'.ret = Min(vcall'.amount, village_resources[vcall'.rtype])
              /\ village_resources' =
                    [village_resources EXCEPT ![vcall'.rtype] = @ - vcall'.ret] ]_vars
    /\ [][ (vops' = vops + 1 /\ vcall'.op = "add_to_village_storage")
           => /\ vcall'.ret = vcall'.amount
              /\ village_resources' =
                    [village_resources EXCEPT ![vcall'.rtype] = @ + vcall'.amount] ]_vars

\* C13 witness: a looting that took everything the ledger held of the
\* targeted types.
C13_Witness ==
    /\ vcall.op = "loot"
    /\ vcall.looted > 0
    /\ village_resources["FOOD_WHEAT"] = 0
    /\ village_resources["STONE"] = 0

\* What the job carries of each resource
Carried(j, t) ==
    CASE t = "STONE" -> j.stone_stockpile
      [] t = "IRON_ORE" -> j.ore_stockpile
      [] t = "HERB" -> j.herb_stockpile
      [] t = "WOOD" -> j.trade_wood
      [] OTHER -> 0

\* C14 (as stated): removing a job from its agent flushes what the job
\* carries into the village economy: for every resource, ledger amount plus
\* carried amount is the same before and after remove_from_agent.
C14_RemovalFlushesCarried ==
    [][ (vops' = vops + 1 /\ vcall'.op = "remove_from_agent")
        => \A t \in LedgerTypes :
              village_resources'[t] + Carried(jobholder', t)
                 = village_resources[t] + Carried(jobholder, t) ]_vars

\* The ledger after exactly wood and stone were deducted
Deducted(ledger, wood, stone) ==
    [ledger EXCEPT !["WOOD"] = @ - wood, !["STONE"] = @ - stone]

\* The builder's handler aborted: progress 1.0, project cleared, nothing changed
AbortedWith(action, reasons) ==
    /\ vcall'.rec.returned
    /\ vcall'.rec.action = action
    /\ vcall'.rec.reason \in reasons
    /\ jobholder'.action_progress = 1000
    /\ jobholder'.current = "none"
    /\ village_resources' = village_resources
    /\ site' = site

\* C16 (as stated): a build or repair by a builder standing at its site is
\* atomic with respect to the ledger.  With too little wood or stone the
\* handler aborts in that tick with a build_failed / repair_failed record
\* naming the shortage and changes no amount; when it completes, exactly the
\* recipe (or the repair cost) is deducted; no amount goes negative.
C16_BuilderAtomic ==
    [][ (/\ vops' = vops + 1
         /\ vcall'.op \in {"build", "repair"}
         /\ jobholder.job = "builder"
         /\ jobholder.at_target)
        => /\ (/\ vcall'.op = "build"
               /\ jobholder.current \in BuildTypes
               /\ vcall'.clear
               /\ ~site.building_present
               /\ \/ village_resources["WOOD"] < Recipes[jobholder.current].wood
                  \/ village_resources["STONE"] < Recipes[jobholder.current].stone)
              => AbortedWith("build_failed", {"not_enough_wood", "not_enough_stone"})
           /\ (/\ vcall'.op = "repair"
               /\ jobholder.current # "none"
               /\ site.building_present
               /\ site.condition < 10000
               /\ \/ village_resources["WOOD"] < RepairCost(site.condition).wood
                  \/ village_resources["STONE"] < RepairCost(site.condition).stone)
              => AbortedWith("repair_failed", {"not_enough_resources"})
           /\ vcall'.rec.action = "building_completed"
              => village_resources' =
                    Deducted(village_resources, Recipes[jobholder.current].wood,
                             Recipes[jobholder.current].stone)
           /\ vcall'.rec.action = "building_repaired"
              => village_resources' =
                    Deducted(village_resources, RepairCost(site.condition).wood,
                             RepairCost(site.condition).stone)
           /\ vcall'.rec.action \notin {"building_completed", "building_repaired"}
              => village_resources' = village_resources
           /\ \A t \in LedgerTypes : village_resources'[t] >= 0 ]_vars

\* The handler finds the target of the action gone or already done
StaleTarget(j, s, op) ==
    \/ /\ op = "mine_deposit"
       /\ j.job = "miner"
       /\ j.at_target
       /\ ~(s.node_present /\ s.node_type = j.current)
    \/ /\ op = "treat_patient"
       /\ j.job = "healer"
       /\ (~s.patient_present \/ s.patient_health >= 10000)
    \/ /\ op = "repair"
       /\ j.job = "builder"
       /\ j.current # "none"
       /\ j.at_target
       /\ (~s.building_present \/ s.condition >= 10000)

\* C17: when the target of a job action is stale (a miner at a position with
\* no node of the deposit type, a healer whose patient is gone or at full
\* health, a builder at a site whose building is gone or fully repaired), the
\* handler completes the action in that tick: progress 1.0, the job's target
\* reference cleared, a record returned, and no node, ledger entry, carried
\* stock or health changed.
C17_StaleTargetCompletes ==
    [][ (vops' = vops + 1 /\ StaleTarget(jobholder, site, vcall'.op))
        => /\ jobholder' = [jobholder EXCEPT !.action_progress = 1000,
                                             !.current = "none"]
           /\ vcall'.rec.returned
           /\ vcall'.rec.action \in {"deposit_depleted", "treatment_complete",
                                     "repair_complete"}
           /\ site' = site
           /\ village_resources' = village_resources ]_vars

\* C17 witness: a loaded miner found its deposit gone; the action completed,
\* the deposit is no longer assigned and the load is still carried.
C17_Witness ==
    /\ vcall.op = "mine_deposit"
    /\ vcall.rec.action = "deposit_depleted"
    /\ jobholder.action_progress = 1000
    /\ jobholder.current = "none"
    /\ jobholder.stone_stockpile = 3500
    /\ ~site.node_present

\* C21 (as stated): after every step action_progress is in [0,1], also for
\* the miner, builder and healer actions that add a skill-dependent
\* increment each tick.
C21_ProgressInUnitInterval ==
    /\ jobholder.action_progress >= 0
    /\ jobholder.action_progress <= 1000

(***************************************************************************)
(* The clock and the hourly and daily work of World.step (world.py,        *)
(* time_system.py).  What update_village_needs computes and what           *)
(* should_change_job answers are modelled above; here a step records which *)
(* of them it called, and for which agents.                                *)
(***************************************************************************)
MaxTick == 310
HoursPerDay == 24
DawnHour == 6

\* Config.ticks_per_hour: 10 by default, any positive integer
TicksPerHourChoices == {1, 2, 10}

\* TimeSystem.get_hour and get_total_day
GetHour(tick, tph) == (tick \div tph) % HoursPerDay
GetTotalDay(tick, tph) == tick \div (tph * HoursPerDay)

\* The test of World.step around update_village_needs
HourBegins(tick, tph) == tick % tph = 0

\* A World.step that evaluates during the whole of hour 6
EvaluatesJobChanges_WholeHour(tick, tph) == GetHour(tick, tph) = DawnHour

\* The tests of World.step around _evaluate_job_changes
EvaluatesJobChanges(tick, tph) == HourBegins(tick, tph) /\ GetHour(tick, tph) = DawnHour

NoClockCall == [needs_updated |-> FALSE, evaluated |-> [id \in AgentIds |-> 0]]

IdleClock ==
    /\ current_tick = 0
    /\ ticks_per_hour = 10
    /\ tcall = NoClockCall
    /\ evaluations = [id \in AgentIds |-> 0]
    /\ step_raised = FALSE

InitClock ==
    /\ current_tick = 0
    /\ ticks_per_hour \in TicksPerHourChoices
    /\ tcall = NoClockCall
    /\ evaluations = [id \in AgentIds |-> 0]
    /\ step_raised = FALSE

\* World._evaluate_job_changes: for agent in self.agents, should_change_job and
\* then perhaps assign_new_job, which raises for the agent raises_at (0: for
\* none); the agents after that one are not reached
EvaluatedAgents(raises_at) ==
    [id \in AgentIds |-> IF raises_at = 0 \/ id <= raises_at THEN 1 ELSE 0]

\* World.step: the tick advances, then the hourly and the daily work
WorldStep(raises_at) ==
    /\ current_tick < MaxTick
    /\ ~step_raised
    /\ LET tick == current_tick + 1
           hourly == HourBegins(tick, ticks_per_hour)
           daily == EvaluatesJobChanges(tick, ticks_per_hour)
           evaluated == IF daily THEN EvaluatedAgents(raises_at)
                        ELSE [id \in AgentIds |-> 0]
           same_day == GetTotalDay(tick, ticks_per_hour)
                         = GetTotalDay(current_tick, ticks_per_hour)
       IN  /\ (raises_at # 0) => daily
           /\ current_tick' = tick
           /\ tcall' = [needs_updated |-> hourly, evaluated |-> evaluated]
           /\ evaluations' = [id \in AgentIds |->
                                (IF same_day THEN evaluations[id] ELSE 0) + evaluated[id]]
           /\ step_raised' = (raises_at # 0)
    /\ UNCHANGED ticks_per_hour
    /\ UNCHANGED notClock

NextClock ==
    \E raises_at \in 0..NumAgents : WorldStep(raises_at)

(***************************************************************************)
(* Claims about the clock (checked under SpecClock)                        *)
(***************************************************************************)

MaxLoopTicks == 3
ExtractRequest == 10 * Milli

FoodCell == "food_cell"

\* for agent in world.agents[:]
AgentsInOrder_Reversed == <<2, 1>>
AgentsInOrder == <<1, 2>>

\* The random outcomes of one agent's step: where it wanders to, and the water
\* it finds
LoopRandoms ==
    {[to |-> p, found |-> f, meet |-> FALSE, detect |-> FALSE, combat |-> NoCombat] :
        p \in {FoodCell, "elsewhere"}, f \in {0, 1000}}

\* The villagers when the loop is entered
Hungry == [k \in NeedTypes |-> IF k = "FOOD" THEN 1500 ELSE Full]
Villagers ==
    {[NewAgent(needs, Full, FALSE, "none", FALSE) EXCEPT !.pos = p] :
        needs \in {Hungry, [k \in NeedTypes |-> Full]}, p \in {FoodCell, "elsewhere"}}

\* The food node when the loop is entered
FoodNodes == {NewNode(q, 20 * Milli, 400) : q \in {3 * Milli, 8 * Milli, 15 * Milli}}

\* agent.step(world, 1.0) of one villager, with the node as the agents before
\* it left it: _progress_find_food extracts from the node at the agent's cell
\* when the inventory holds no food
VillagerStep(a, n, rnd) ==
    LET d == StepDecide(StepUpdate(a), "ABSENT", FALSE)
        extracts == /\ ~d.a.crashed
                    /\ d.a.current_action = "find_food"
                    /\ d.a.inv_food = 0
                    /\ d.a.pos = FoodCell
        r == IF extracts THEN Extract(n, ExtractRequest) ELSE [n |-> n, ret |-> 0]
        found == IF d.a.current_action = "find_food" THEN r.ret \div 10 ELSE rnd.found
    IN  [a |-> StepProgress(d.a, "ABSENT", [rnd EXCEPT !.found = found]),
         n |-> r.n, ran |-> extracts, extracted |-> r.ret]

\* The loop over the agents, from the i-th of the order on
RECURSIVE StepAgents(_, _, _)
StepAgents(i, st, rnds) ==
    IF i > Len(AgentsInOrder)
    THEN st
    ELSE LET id == AgentsInOrder[i]
             r == VillagerStep(st.villagers[id], st.n, rnds[id])
         IN  StepAgents(i + 1,
                        [villagers |-> [st.villagers EXCEPT ![id] = r.a],
                         n |-> r.n,
                         ran |-> [st.ran EXCEPT ![id] = r.ran],
                         extracted |-> [st.extracted EXCEPT ![id] = r.extracted]],
                        rnds)

NoLoopCall ==
    [quantity |-> 0, ran |-> [id \in AgentIds |-> FALSE],
     extracted |-> [id \in AgentIds |-> 0]]

IdleLoop ==
    /\ food_node = NewNode(Milli, Milli, 0)
    /\ villagers = [id \in AgentIds |->
                        NewAgent([k \in NeedTypes |-> Full], Full, FALSE, "none", FALSE)]
    /\ lcall = NoLoopCall
    /\ lticks = 0

InitLoop ==
    /\ food_node \in FoodNodes
    /\ villagers \in [AgentIds -> Villagers]
    /\ lcall = NoLoopCall
    /\ lticks = 0

\* One turn of the run loop: world.step() regrows the node (ResourceManager.step
\* with hours_passed = 1 / ticks_per_hour), then the agents are stepped
RunLoopTurn ==
    /\ lticks < MaxLoopTicks
    /\ \E season \in {15, 3}, reseed \in BOOLEAN, rnds \in [AgentIds -> LoopRandoms] :
          LET regrown == Regrow(food_node, 1, season, reseed)
              st == StepAgents(1, [villagers |-> villagers, n |-> regrown,
                                   ran |-> NoLoopCall.ran,
                                   extracted |-> NoLoopCall.extracted],
                               rnds)
          IN  /\ food_node' = st.n
              /\ villagers' = st.villagers
              /\ lcall' = [quantity |-> regrown.quantity, ran |-> st.ran,
                           extracted |-> st.extracted]
    /\ lticks' = lticks + 1
    /\ UNCHANGED notLoop

NextLoop == RunLoopTurn

(***************************************************************************)
(* Claims about the run loop (checked under SpecLoop)                      *)
(***************************************************************************)

\* C24: regrowth comes first in a tick and the agents are stepped in list
\* order, each on the node as the one before left it: when both agents run the
\* extraction of find_food at the cell of a node holding q <= 10 units, the
\* first agent of the list extracts q and the second extracts 0.
C24_EarlierAgentExtractsFirst ==
    [][ (/\ lticks' = lticks + 1
         /\ lcall'.ran[1]
         /\ lcall'.ran[2]
         /\ lcall'.quantity <= 10 * Milli)
        => /\ lcall'.extracted[1] = lcall'.quantity
           /\ lcall'.extracted[2] = 0
           /\ food_node'.quantity = 0 ]_vars

\* Both agents have just run the extraction on a node that held something
C24_Witness ==
    /\ lcall.ran[1]
    /\ lcall.ran[2]
    /\ lcall.quantity > 0
    /\ lcall.quantity <= 10 * Milli
    /\ lcall.extracted[1] = lcall.quantity
    /\ lcall.extracted[2] = 0

(***************************************************************************)
(* A miner stepped tick after tick (agent.py Agent.step, miner.py)         *)
(*                                                                         *)
(* One agent holds a MinerJob, has a deposit assigned and stands on its    *)
(* cell.  Each step is Agent.step: the completion test, the decision when  *)
(* no action is set, and one call of the progress handler.  The needs of   *)
(* the agent stay above the survival threshold during the ticks modelled,  *)
(* so that the decision is the job's.  Units are those of the job handlers *)
(* above.  improve_skills adds less than 0.007 to the skill in a tick; the *)
(* skill levels below are ones for which that drift does not change the    *)
(* tick at which action_progress passes 0.95 or 1.0, and the skill is held *)
(* at its level.                                                           *)
(***************************************************************************)
MaxMineTicks == 12

\* agent.skills["mining"] of the miner
MineSkillPcts == {20, 60, 100}

\* MinerJob.decide_action
MinerDecideAction(j, s) ==
    IF j.ore_stockpile + j.stone_stockpile >= MaxCarry
    THEN SetJobAction(j, "return_with_minerals")
    ELSE IF j.current = "none"
    THEN SetJobAction(j, "find_deposit")
    ELSE IF ~j.at_target
    THEN SetJobAction(j, "go_to_deposit")
    ELSE IF s.node_present /\ s.node_type = j.current
    THEN SetJobAction(j, "mine_deposit")
    ELSE SetJobAction([j EXCEPT !.current = "none"], "find_deposit")

\* Agent._is_action_complete
IsActionComplete(j) == j.action_progress >= 1000

\* The first half of Agent.step for a job action: a complete action is
\* cleared (_complete_action does nothing for it), and the job decides when
\* no action is set
MinerStepDecide(j, s) ==
    LET j1 == IF j.current_action # "none" /\ IsActionComplete(j)
              THEN [j EXCEPT !.current_action = "none", !.action_progress = 0]
              ELSE j
    IN  IF j1.current_action = "none" THEN MinerDecideAction(j1, s) ELSE j1

\* What a step of the miner did: the action it cleared as complete, whether
\* the deposit held minerals then, the load carried and the quantity of the
\* node when that action was set and when it was cleared, and the same two
\* values at the setting of the action now under way
NoMineCall ==
    [reset |-> "none", had_minerals |-> FALSE,
     carried_at_start |-> 0, quantity_at_start |-> 0,
     carried_at_reset |-> 0, quantity_at_reset |-> 0,
     run_carried |-> 0, run_quantity |-> 0]

\* The miner at rest, for the specifications of the other subsystems
IdleMine ==
    /\ mine_agent = NoJobholder
    /\ deposit = NoSite
    /\ mining_skill = 0
    /\ mcall = NoMineCall
    /\ mticks = 0

\* A miner that has just arrived at its assigned deposit, with an empty or a
\* nearly full load
InitMine ==
    /\ mine_agent \in { [NoJobholder EXCEPT !.job = "miner", !.current = c,
                                            !.at_target = TRUE,
                                            !.stone_stockpile = st] :
                          c \in {"STONE", "IRON_ORE"}, st \in {0, 3500} }
    /\ deposit \in SitesOf("miner")
    /\ mining_skill \in MineSkillPcts
    /\ mcall = NoMineCall
    /\ mticks = 0

\* agent.step(world, time_delta) of the miner while it has no action or is
\* mining
MinerStep ==
    /\ mticks < MaxMineTicks
    /\ mine_agent.current_action \in {"none", "mine_deposit"}
    /\ LET resets == /\ mine_agent.current_action # "none"
                     /\ IsActionComplete(mine_agent)
           j2 == MinerStepDecide(mine_agent, deposit)
           begins == /\ j2.current_action = "mine_deposit"
                     /\ (mine_agent.current_action = "none" \/ resets)
           r == IF j2.current_action # "none"
                THEN JobProgressAction(j2, deposit, EmptyLedger, FALSE,
                                       mining_skill, FALSE)
                ELSE [j |-> j2, s |-> deposit, ledger |-> EmptyLedger,
                      rec |-> NoRecord]
           carried == mine_agent.ore_stockpile + mine_agent.stone_stockpile
       IN  /\ mine_agent' = r.j
           /\ deposit' = r.s
           /\ mcall' =
                [reset |-> IF resets THEN mine_agent.current_action ELSE "none",
                 had_minerals |-> /\ resets
                                  /\ deposit.node_present
                                  /\ deposit.node_type = mine_agent.current,
                 carried_at_start |-> IF resets THEN mcall.run_carried ELSE 0,
                 quantity_at_start |-> IF resets THEN mcall.run_quantity ELSE 0,
                 carried_at_reset |-> IF resets THEN carried ELSE 0,
                 quantity_at_reset |-> IF resets THEN deposit.node_quantity ELSE 0,
                 run_carried |-> IF begins THEN carried ELSE mcall.run_carried,
                 run_quantity |-> IF begins THEN deposit.node_quantity
                                  ELSE mcall.run_quantity]
    /\ mticks' = mticks + 1
    /\ UNCHANGED mining_skill
    /\ UNCHANGED notMine

NextMine == MinerStep

(***************************************************************************)
(* Claims about the miner's steps (checked under SpecMine)                 *)
(***************************************************************************)

\* C31: a mine_deposit action that Agent.step clears as complete, at a
\* deposit that still holds minerals, has added the mined amount to the load
\* the miner carries and has taken one unit from the node, once, since the
\* action was set.
C31_MiningHarvestsBeforeReset ==
    (/\ mcall.reset = "mine_deposit"
     /\ mcall.had_minerals)
    => /\ mcall.carried_at_reset > mcall.carried_at_start
       /\ mcall.quantity_at_reset = mcall.quantity_at_start - 100

(***************************************************************************)
(* Going home on the grid (agent.py Agent._progress_go_home, world.py      *)
(* World.move_agent).  Positions are cells (x, y) of the world's grid; the *)
(* agent has go_home set and Agent.step calls the progress handler once a  *)
(* tick while action_progress is below 1.0.  action_progress is in         *)
(* percent, the REST need in hundredths.                                   *)
(***************************************************************************)
WorldWidth == 4
WorldHeight == 3
MaxHomeSteps == 4

\* The cells of World.grid
Cells == (0..(WorldWidth - 1)) \X (0..(WorldHeight - 1))

\* home_position = None
None == <<>>

\* REST needs on either side of the 50.0 of _progress_go_home
RestLevels == {4000, 6000}

Abs(n) == IF n < 0 THEN 0 - n ELSE n

\* 1 if target > current else (-1 if target < current else 0)
Toward(target, current) ==
    IF target > current THEN 1 ELSE IF target < current THEN 0 - 1 ELSE 0

\* The Chebyshev distance between two cells
Chebyshev(p, q) == Max(Abs(p[1] - q[1]), Abs(p[2] - q[2]))

\* A faulty step that closes the x distance before the y distance (mutant
\* for C33)
StepToward_AxisFirst(position, target) ==
    IF position[1] # target[1]
    THEN <<position[1] + Toward(target[1], position[1]), position[2]>>
    ELSE <<position[1], position[2] + Toward(target[2], position[2])>>

\* new_x, new_y of _progress_go_home: one cell towards the target on both
\* axes
StepToward(position, target) ==
    <<position[1] + Toward(target[1], position[1]),
      position[2] + Toward(target[2], position[2])>>

\* World.move_agent: the agent's position after the call
MoveAgent(position, new) ==
    IF ~(0 <= new[1] /\ new[1] < WorldWidth /\ 0 <= new[2] /\ new[2] < WorldHeight)
    THEN position
    ELSE new

\* Agent._progress_go_home
ProgressGoHomeOnGrid(a) ==
    IF a.home_position = None
    THEN [a EXCEPT !.action_progress = 100]
    ELSE IF a.position = a.home_position
    THEN IF a.rest < RecoverLevel
         THEN [a EXCEPT !.current_action = "sleeping", !.action_progress = 0]
         ELSE [a EXCEPT !.action_progress = 100]
    ELSE LET new == StepToward(a.position, a.home_position)
         IN  [a EXCEPT !.position = MoveAgent(a.position, new),
                       !.action_progress = IF new = a.home_position
                                           THEN 100 ELSE 50]

\* The agent at rest, for the specifications of the other subsystems
IdleHoming ==
    /\ homing = [position |-> <<0, 0>>, home_position |-> None,
                 current_action |-> "none", action_progress |-> 0, rest |-> Full]
    /\ hcall = [start |-> 0]
    /\ hsteps = 0

\* An agent anywhere on the grid for which go_home has just been set, with
\* a home anywhere on the grid or none
InitHoming ==
    /\ \E position \in Cells, home_position \in Cells \cup {None},
          rest \in RestLevels :
          /\ homing = [position |-> position, home_position |-> home_position,
                       current_action |-> "go_home", action_progress |-> 0,
                       rest |-> rest]
          /\ hcall = [start |-> IF home_position = None THEN 0
                                ELSE Chebyshev(position, home_position)]
    /\ hsteps = 0

\* Agent.step reaching self._progress_go_home(world, time_delta)
GoHomeProgress ==
    /\ hsteps < MaxHomeSteps
    /\ homing.current_action = "go_home"
    /\ homing.action_progress < 100
    /\ homing' = ProgressGoHomeOnGrid(homing)
    /\ hsteps' = hsteps + 1
    /\ UNCHANGED hcall
    /\ UNCHANGED notHoming

NextHoming == GoHomeProgress

(***************************************************************************)
(* Claims about going home (checked under SpecHoming)                      *)
(***************************************************************************)

\* C33: with a home on the grid at Chebyshev distance d, every go_home
\* progress call made at distance >= 1 brings the agent one closer,
\* action_progress is 1.0 after a call only when the agent stands on its
\* home, and for d >= 1 that is after the d-th call and no other; with no
\* home the first call sets action_progress to 1.0 and leaves the agent
\* where it is.
C33_GoHomeGreedy ==
    [][ (hsteps' = hsteps + 1)
        => IF homing.home_position = None
           THEN /\ homing'.position = homing.position
                /\ homing'.action_progress = 100
           ELSE LET d == Chebyshev(homing.position, homing.home_position)
                IN  /\ (d >= 1) =>
                          Chebyshev(homing'.position, homing.home_position) = d - 1
                    /\ (homing'.action_progress = 100) =>
                          homing'.position = homing.home_position
                    /\ (hcall.start >= 1) =>
                          ((homing'.action_progress = 100)
                             <=> (hsteps' = hcall.start)) ]_vars

\* The agent has come home from three cells away, moving on both axes
C33_Witness ==
    /\ hcall.start = 3
    /\ hsteps = 3
    /\ homing.home_position = <<3, 2>>
    /\ homing.position = homing.home_position
    /\ homing.action_progress = 100

(***************************************************************************)
(* The condition of a storage facility (storage.py, threats.py,            *)
(* builder.py).  StorageManager.add_facility puts the facility into        *)
(* world.buildings, so that a threat at its position damages it and a      *)
(* builder repairs it like any building.  The facility record is that of   *)
(* the storage model (condition in whole points); the handlers of the      *)
(* threat and of the builder are those of the village model, which count   *)
(* the condition in hundredths.  The builder and the ledger of a call are  *)
(* inputs of the call.                                                     *)
(***************************************************************************)
MaxUpkeepOps == 4

\* amounts passed to damage and to repair
UpkeepAmounts == {0, 25, 80, 150}

\* The facility as the building standing at a site, and back
AsSite(f) == [NoSite EXCEPT !.building_present = TRUE, !.condition = f.condition * 100]
WithConditionOf(f, s) == [f EXCEPT !.condition = s.condition \div 100]

NoUpkeepCall == [op |-> "none", amount |-> 0, ret |-> 0, before |-> NewFacility("Warehouse")]

\* The facility at rest, for the specifications of the other subsystems
IdleUpkeep ==
    /\ building = NewFacility("Warehouse")
    /\ ucall = NoUpkeepCall
    /\ uops = 0

\* A new facility that has taken in some stock
InitUpkeep ==
    /\ \E k \in {"Warehouse", "Granary"}, food \in {0, 400} :
          building = [NewFacility(k) EXCEPT !.resources["FOOD_WHEAT"] = food]
    /\ ucall = NoUpkeepCall
    /\ uops = 0

\* facility.damage(amount)
UpkeepDamage(amount) ==
    /\ uops < MaxUpkeepOps
    /\ \E lose \in BOOLEAN :
       \E lossOf \in (IF lose THEN LossChoices(building, amount)
                              ELSE {[t \in RTypes |-> 0]}) :
          LET r == FacilityDamage(building, amount, lose, lossOf)
          IN  /\ building' = r.f
              /\ ucall' = [op |-> "damage", amount |-> amount, ret |-> r.ret,
                           before |-> building]
    /\ uops' = uops + 1
    /\ UNCHANGED notUpkeep

\* facility.repair(amount, day)
UpkeepRepair(amount) ==
    /\ uops < MaxUpkeepOps
    /\ LET r == FacilityRepair(building, amount)
       IN  /\ building' = r.f
           /\ ucall' = [op |-> "repair", amount |-> amount, ret |-> r.ret,
                        before |-> building]
    /\ uops' = uops + 1
    /\ UNCHANGED notUpkeep

\* threat.attack_village reaching _process_looting at the facility
UpkeepLoot ==
    /\ uops < MaxUpkeepOps
    /\ \E damage_potential \in {2000, 10000}, rolled \in LootRolls,
          ledger \in LedgersOf("builder") :
          LET roll == [t \in {"FOOD_WHEAT", "STONE"} |-> rolled]
              r == ProcessLooting(AsSite(building), ledger, damage_potential, roll)
          IN  /\ building' = WithConditionOf(building, r.s)
              /\ ucall' = [op |-> "loot", amount |-> damage_potential \div 100,
                           ret |-> r.looted, before |-> building]
    /\ uops' = uops + 1
    /\ UNCHANGED notUpkeep

\* agent.step of a builder reaching _progress_repair at the facility
UpkeepBuilderRepair ==
    /\ uops < MaxUpkeepOps
    /\ \E j \in {b \in Builders : b.current_action = "repair"},
          ledger \in LedgersOf("builder"), skill \in SkillPcts :
          LET r == ProgressRepair(j, AsSite(building), ledger, skill)
          IN  /\ building' = WithConditionOf(building, r.s)
              /\ ucall' = [op |-> r.rec.action, amount |-> 0, ret |-> 0,
                           before |-> building]
    /\ uops' = uops + 1
    /\ UNCHANGED notUpkeep

NextUpkeep ==
    \/ \E amount \in UpkeepAmounts : UpkeepDamage(amount)
    \/ \E amount \in UpkeepAmounts : UpkeepRepair(amount)
    \/ UpkeepLoot
    \/ UpkeepBuilderRepair

(***************************************************************************)
(* Claims about the condition of a facility (checked under SpecUpkeep)     *)
(***************************************************************************)

\* C34: the condition of a storage facility is in [0,100] after any
\* sequence of damage, repair, looting by a threat and repair by a builder;
\* damage(amount) returns min(amount, condition) and takes that from the
\* condition; repair(amount, day) returns min(amount, 100 - condition) and
\* adds that, and on a facility at 100 it returns 0 and leaves the facility
\* as it was.
C34_ConditionBounds ==
    /\ building.condition >= 0
    /\ building.condition <= 100
    /\ (ucall.op = "damage") =>
          /\ ucall.ret = Min(ucall.amount, ucall.before.condition)
          /\ building.condition = ucall.before.condition - ucall.ret
    /\ (ucall.op = "repair") =>
          /\ ucall.ret = Min(ucall.amount, 100 - ucall.before.condition)
          /\ building.condition = ucall.before.condition + ucall.ret
          /\ (ucall.before.condition = 100) =>
                (ucall.ret = 0 /\ building = ucall.before)

\* A repair larger than what was missing has brought a facility that a
\* threat had damaged back to 100
C34_Witness ==
    /\ ucall.op = "repair"
    /\ ucall.before.condition = 80
    /\ ucall.amount = 150
    /\ ucall.ret = 20
    /\ building.condition = 100

(***************************************************************************)
(* Specifications                                                          *)
(***************************************************************************)
InitSpecStorage ==
    /\ InitStorage
    /\ IdleNode
    /\ IdleAgent
    /\ IdleJobManager
    /\ IdleJobs
    /\ IdleWorld
    /\ IdleVillage
    /\ IdleClock
    /\ IdleLoop
    /\ IdleMine
    /\ IdleHoming
    /\ IdleUpkeep

SpecStorage == InitSpecStorage /\ [][NextStorage]_vars

InitSpecNode ==
    /\ IdleStorage
    /\ InitNode
    /\ IdleAgent
    /\ IdleJobManager
    /\ IdleJobs
    /\ IdleWorld
    /\ IdleVillage
    /\ IdleClock
    /\ IdleLoop
    /\ IdleMine
    /\ IdleHoming
    /\ IdleUpkeep

SpecNode == InitSpecNode /\ [][NextNode]_vars

InitSpecAgent ==
    /\ IdleStorage
    /\ IdleNode
    /\ InitAgent
    /\ IdleJobManager
    /\ IdleJobs
    /\ IdleWorld
    /\ IdleVillage
    /\ IdleClock
    /\ IdleLoop
    /\ IdleMine
    /\ IdleHoming
    /\ IdleUpkeep

SpecAgent == InitSpecAgent /\ [][NextAgent]_vars

InitSpecWander ==
    /\ IdleStorage
    /\ IdleNode
    /\ InitWander
    /\ IdleJobManager
    /\ IdleJobs
    /\ IdleWorld
    /\ IdleVillage
    /\ IdleClock
    /\ IdleLoop
    /\ IdleMine
    /\ IdleHoming
    /\ IdleUpkeep

\* The run loop steps the agent on every tick
SpecWander == InitSpecWander /\ [][NextWander]_vars /\ WF_vars(NextWander)

InitSpecSleep ==
    /\ IdleStorage
    /\ IdleNode
    /\ InitSleep
    /\ IdleJobManager
    /\ IdleJobs
    /\ IdleWorld
    /\ IdleVillage
    /\ IdleClock
    /\ IdleLoop
    /\ IdleMine
    /\ IdleHoming
    /\ IdleUpkeep

\* The run loop steps the agent on every tick
SpecSleep == InitSpecSleep /\ [][NextSleep]_vars /\ WF_vars(NextSleep)

InitSpecJobManager ==
    /\ IdleStorage
    /\ IdleNode
    /\ IdleAgent
    /\ InitJobManager
    /\ IdleJobs
    /\ IdleWorld
    /\ IdleVillage
    /\ IdleClock
    /\ IdleLoop
    /\ IdleMine
    /\ IdleHoming
    /\ IdleUpkeep

SpecJobManager == InitSpecJobManager /\ [][NextJobManager]_vars

InitSpecJobs ==
    /\ IdleStorage
    /\ IdleNode
    /\ IdleAgent
    /\ IdleJobManager
    /\ InitJobs
    /\ IdleWorld
    /\ IdleVillage
    /\ IdleClock
    /\ IdleLoop
    /\ IdleMine
    /\ IdleHoming
    /\ IdleUpkeep

SpecJobs == InitSpecJobs /\ [][NextJobs]_vars

InitSpecWorld ==
    /\ InitWorld
    /\ IdleNode
    /\ IdleAgent
    /\ IdleJobManager
    /\ IdleJobs
    /\ IdleVillage
    /\ IdleClock
    /\ IdleLoop
    /\ IdleMine
    /\ IdleHoming
    /\ IdleUpkeep

SpecWorld == InitSpecWorld /\ [][NextWorld]_vars

InitSpecVillage ==
    /\ IdleStorage
    /\ IdleNode
    /\ IdleAgent
    /\ IdleJobManager
    /\ IdleJobs
    /\ InitVillage
    /\ IdleClock
    /\ IdleLoop
    /\ IdleMine
    /\ IdleHoming
    /\ IdleUpkeep

SpecVillage == InitSpecVillage /\ [][NextVillage]_vars

InitSpecClock ==
    /\ IdleStorage
    /\ IdleNode
    /\ IdleAgent
    /\ IdleJobManager
    /\ IdleJobs
    /\ IdleWorld
    /\ IdleVillage
    /\ InitClock
    /\ IdleLoop
    /\ IdleMine
    /\ IdleHoming
    /\ IdleUpkeep

SpecClock == InitSpecClock /\ [][NextClock]_vars

InitSpecLoop ==
    /\ IdleStorage
    /\ IdleNode
    /\ IdleAgent
    /\ IdleJobManager
    /\ IdleJobs
    /\ IdleWorld
    /\ IdleVillage
    /\ IdleClock
    /\ InitLoop
    /\ IdleMine
    /\ IdleHoming
    /\ IdleUpkeep

SpecLoop == InitSpecLoop /\ [][NextLoop]_vars

InitSpecMine ==
    /\ IdleStorage
    /\ IdleNode
    /\ IdleAgent
    /\ IdleJobManager
    /\ IdleJobs
    /\ IdleWorld
    /\ IdleVillage
    /\ IdleClock
    /\ IdleLoop
    /\ InitMine
    /\ IdleHoming
    /\ IdleUpkeep

SpecMine == InitSpecMine /\ [][NextMine]_vars

InitSpecHoming ==
    /\ IdleStorage
    /\ IdleNode
    /\ IdleAgent
    /\ IdleJobManager
    /\ IdleJobs
    /\ IdleWorld
    /\ IdleVillage
    /\ IdleClock
    /\ IdleLoop
    /\ IdleMine
    /\ InitHoming
    /\ IdleUpkeep

SpecHoming == InitSpecHoming /\ [][NextHoming]_vars

InitSpecUpkeep ==
    /\ IdleStorage
    /\ IdleNode
    /\ IdleAgent
    /\ IdleJobManager
    /\ IdleJobs
    /\ IdleWorld
    /\ IdleVillage
    /\ IdleClock
    /\ IdleLoop
    /\ IdleMine
    /\ IdleHoming
    /\ InitUpkeep

SpecUpkeep == InitSpecUpkeep /\ [][NextUpkeep]_vars
=============================================================================
